---- MODULE Spec2Model ----
(***************************************************************************)
(* Entanglement distribution in a quantum network (mqns): the quantum      *)
(* memory of a node, the link-layer reservation protocol that turns an     *)
(* activated channel into elementary EPR pairs, and the statistical        *)
(* multiplexing scheme that classifies freshly entangled qubits.           *)
(*                                                                         *)
(* Simulated time is abstracted: an event that has been scheduled may be   *)
(* handled at any later step; each classical channel delivers its packets  *)
(* in sending order.                                                       *)
(***************************************************************************)
EXTENDS Integers, Sequences, FiniteSets, TLC

\* ------------------------------------------------------------------ bounds
MaxCap == 2        \* largest memory capacity tried in the memory specification
MaxKeys == 2       \* reservation keys (uuid4 values) drawn in a run of the chain
MaxQueueKeys == 5  \* reservation keys drawn in a run of the fan-in

MaxPathOps == 2    \* number of path installations and removals by the forwarders

MaxNames == MaxCap
MaxStarts == 2       \* start events posted per (qchannel, path_id) key
MaxSyncKeys == 2     \* reservation keys drawn in a run of the synchronous link
MaxLiveKeys == 4     \* reservation keys drawn before the initiators' forwarders stop releasing
MaxDelay == 2        \* largest notification delay of an attempt, in time slots
MaxInstalls == 3     \* registrations of paths on the channels of one node
MaxRoute == 4        \* nodes on a route, and entries of a swap sequence
MaxSegments == 2     \* entries of a purification scheme

\* ------------------------------------------------------------ absent values
NoPath == -1       \* path_id None
NoKey == 0         \* MemoryQubit.active None / no name
NoData == 0        \* empty slot (data None)
NoAddr == -1       \* write()/read() returned None
NoCh == "none"     \* qubit not assigned to a qchannel
NoIds == {-1}      \* tmp_path_ids None (distinct from every set of path ids)

Nodes == {"A", "B", "C"}
MemNode == "A"     \* node whose memory the memory specification exercises
PathIds == {1, 2}

VARIABLES
    memory,        \* node -> [storage : addr -> slot, usage : Nat]   (QuantumMemory._storage, _usage)
    decohQ,        \* node -> set of scheduled memory decoherence events [addr, name]
    nextKey,       \* source of uuid4 values: the next unused one
    last,          \* record of the last memory API call and what it returned
    cfg,           \* the scenario: timing mode, paths, coordinated_decisions
    active_channels,           \* node -> [(qchannel, path_id) -> insertion count]
    pending_init_reservation,  \* node -> set of [key, qchannel, next_hop, addr]
    fifo_reservation_req,      \* node -> sequence of ReservationRequest
    cchan,         \* <<src, dst>> -> sequence of ReserveMsg in flight
    events,        \* set of scheduled LinkArchSuccessEvent [node, epr] (delivered after a delay)
    urgent,        \* events scheduled at the current time tc, in insertion order
    fib,           \* node -> [path id -> "no" | "yes" | "removed"]: the forwarder's FIB
    raised,        \* "" or the exception / failed assertion that ended the run
    eprs,          \* name -> the shared WernerStateEntanglement object
    qchannel_paths_map,        \* node -> [qchannel name -> sequence of path ids]
    etg_count,     \* node -> counter of generated entanglements
    decoh_count,   \* node -> counter of decohered qubits
    step,          \* what the last handler did: its name, node, and the state assignments it made
    phase,         \* the timing phase of the network: "EXTERNAL" or "INTERNAL" (SYNC mode only)
    managed,       \* (qchannel, path_id) -> ManageActiveChannels events posted: [starts, stops]
    parallel_swappings   \* node -> set of [shared, other, my_new]: swaps whose partner
                         \* may have swapped the shared EPR in the same instant

vars == <<memory, decohQ, nextKey, last, cfg, active_channels, pending_init_reservation,
          fifo_reservation_req, cchan, events, urgent, fib, raised, eprs,
          qchannel_paths_map, etg_count, decoh_count, step, phase, managed,
          parallel_swappings>>

llvars == <<cfg, active_channels, pending_init_reservation, fifo_reservation_req, cchan,
            events, urgent, fib, raised, eprs, qchannel_paths_map, etg_count,
            decoh_count, step, phase, managed, parallel_swappings>>

\* ------------------------------------------------------------------ helpers
\* the (qchannel, path_id) keys the link layer of node A is asked to manage
ChannelKeys == {<<"AB", NoPath>>, <<"AB", 1>>}

NothingManaged == [k \in ChannelKeys |-> [starts |-> 0, stops |-> 0]]

Min(S) == CHOOSE x \in S : \A y \in S : x <= y

EmptyFn == [x \in {} |-> 0]

Links == {<<s, d>> \in Nodes \X Nodes : s # d}

\* ---------------------------------------------------------- QuantumMemory
RawQubit(ch, pid) ==
    [state |-> "RAW", qchannel |-> ch, path_id |-> pid, active |-> NoKey, data |-> NoData]

NewMemory(cap) ==
    [storage |-> [a \in 0 .. cap - 1 |-> RawQubit(NoCh, NoPath)], usage |-> 0]

Capacity(m) == Cardinality(DOMAIN m.storage)

IsFull(m) == m.usage >= Capacity(m)

\* faulty variant: the reservation key is not compared
MatchFreeAnyKey(m, path_id, key) ==
    {a \in DOMAIN m.storage :
        /\ m.storage[a].data = NoData
        /\ (path_id = NoPath \/ m.storage[a].path_id = path_id)}

\* free slots that satisfy the path_id / key constraints of a write
MatchFree(m, path_id, key) ==
    {a \in DOMAIN m.storage :
        /\ m.storage[a].data = NoData
        /\ (path_id = NoPath \/ m.storage[a].path_id = path_id)
        /\ (key = NoKey \/ m.storage[a].active = key)}

\* faulty variant: the occupancy count is not kept
MemWriteNoUsage(m, name, path_id, key) ==
    IF IsFull(m) \/ MatchFree(m, path_id, key) = {}
    THEN [m |-> m, addr |-> NoAddr]
    ELSE LET a == Min(MatchFree(m, path_id, key))
         IN  [m |-> [m EXCEPT !.storage[a].data = name], addr |-> a]

\* write(content, path_id, key) -> the slot written, or None
MemWrite(m, name, path_id, key) ==
    IF IsFull(m) \/ MatchFree(m, path_id, key) = {}
    THEN [m |-> m, addr |-> NoAddr]
    ELSE LET a == Min(MatchFree(m, path_id, key))
         IN  [m |-> [m EXCEPT !.storage[a].data = name, !.usage = @ + 1], addr |-> a]

\* the slot a name or an address designates, if it holds content
MemLookup(m, byName, v) ==
    LET hit == {a \in DOMAIN m.storage :
                   /\ m.storage[a].data # NoData
                   /\ IF byName THEN m.storage[a].data = v ELSE a = v}
    IN  IF hit = {} THEN NoAddr ELSE Min(hit)

\* faulty variant: a miss is an error whether or not the caller demands existence
MemGetStrict(m, byName, v, must) ==
    LET a == MemLookup(m, byName, v)
    IN  IF a = NoAddr
        THEN [m |-> m, addr |-> NoAddr, data |-> NoData, err |-> "NotFound"]
        ELSE [m |-> m, addr |-> a, data |-> m.storage[a].data, err |-> ""]

\* get(key, must): non-destructive
MemGet(m, byName, v, must) ==
    LET a == MemLookup(m, byName, v)
    IN  IF a = NoAddr
        THEN [m |-> m, addr |-> NoAddr, data |-> NoData, err |-> IF must THEN "NotFound" ELSE ""]
        ELSE [m |-> m, addr |-> a, data |-> m.storage[a].data, err |-> ""]

\* faulty variant: the content is returned but stays in its slot
MemReadKeeps(m, byName, v, must) == MemGet(m, byName, v, must)

\* read(key, must): destructive
MemRead(m, byName, v, must) ==
    LET g == MemGet(m, byName, v, must)
    IN  IF g.addr = NoAddr THEN g
        ELSE [g EXCEPT !.m = [m EXCEPT !.storage[g.addr].data = NoData, !.usage = @ - 1]]

\* faulty variant: the contents are dropped but the occupancy count stays
MemClearKeepsCount(m) ==
    [storage |-> [a \in DOMAIN m.storage |->
                     [m.storage[a] EXCEPT !.data = NoData, !.state = "RAW", !.active = NoKey]],
     usage |-> m.usage]

\* clear(): every slot is freed and its qubit reset
MemClear(m) ==
    [storage |-> [a \in DOMAIN m.storage |->
                     [m.storage[a] EXCEPT !.data = NoData, !.state = "RAW", !.active = NoKey]],
     usage |-> 0]

\* faulty variant: the slot is freed whatever it holds now
MemDecohereAlways(m, a, name) ==
    IF m.storage[a].data # NoData
    THEN [m |-> [m EXCEPT !.storage[a].data = NoData, !.storage[a].state = "RELEASE",
                          !.usage = @ - 1],
          freed |-> TRUE]
    ELSE [m |-> m, freed |-> FALSE]

\* the scheduled decoherence of `name` in slot a fires
MemDecohere(m, a, name) ==
    IF m.storage[a].data = name
    THEN [m |-> [m EXCEPT !.storage[a].data = NoData, !.storage[a].state = "RELEASE",
                          !.usage = @ - 1],
          freed |-> TRUE]
    ELSE [m |-> m, freed |-> FALSE]

\* allocate(path_id, direction, ch_name): the first slot not bound to a path is bound to
\* path_id; its address, or none when every slot is bound
MemAllocate(m, path_id) ==
    LET unbound == {a \in DOMAIN m.storage : m.storage[a].path_id = NoPath}
    IN  IF unbound = {} THEN [m |-> m, addr |-> NoAddr]
        ELSE [m |-> [m EXCEPT !.storage[Min(unbound)].path_id = path_id],
              addr |-> Min(unbound)]

\* faulty variant: an address outside the memory is ignored
MemDeallocateUnchecked(m, addr) ==
    IF addr \notin DOMAIN m.storage THEN [m |-> m, err |-> ""]
    ELSE [m |-> [m EXCEPT !.storage[addr].path_id = NoPath], err |-> ""]

\* deallocate(addr): the slot loses its path binding; IndexError outside [0, capacity)
MemDeallocate(m, addr) ==
    IF addr \notin DOMAIN m.storage THEN [m |-> m, err |-> "IndexError"]
    ELSE [m |-> [m EXCEPT !.storage[addr].path_id = NoPath], err |-> ""]

\* ------------------------------------------------- memory API, one node
\* `last` also counts in nw the successful writes made since the memory was empty
\* (construction or clear()); nw is -1 once content has been removed in between.
NoOp ==
    [op |-> "init", name |-> NoData, pid |-> NoPath, key |-> NoKey, byName |-> FALSE,
     v |-> NoAddr, must |-> FALSE, addr |-> NoAddr, data |-> NoData, err |-> "", nw |-> 0]

Bump(n) == IF n < 0 THEN n ELSE n + 1

MWrite(pid, key) ==
    LET name == nextKey
        w == MemWrite(memory[MemNode], name, pid, key)
    IN  /\ (nextKey <= MaxNames \/ w.addr = NoAddr)
        /\ memory' = [memory EXCEPT ![MemNode] = w.m]
        /\ nextKey' = IF w.addr = NoAddr THEN nextKey ELSE nextKey + 1
        /\ decohQ' = IF w.addr = NoAddr THEN decohQ
                     ELSE [decohQ EXCEPT ![MemNode] = @ \cup {[addr |-> w.addr, name |-> name]}]
        /\ last' = [NoOp EXCEPT !.op = "write", !.name = name, !.pid = pid, !.key = key,
                                !.addr = w.addr,
                                !.nw = IF w.addr = NoAddr THEN last.nw ELSE Bump(last.nw)]
        /\ UNCHANGED llvars

MRead(byName, v, must) ==
    LET r == MemRead(memory[MemNode], byName, v, must)
    IN  /\ memory' = [memory EXCEPT ![MemNode] = r.m]
        /\ last' = [NoOp EXCEPT !.op = "read", !.byName = byName, !.v = v, !.must = must,
                                !.addr = r.addr, !.data = r.data, !.err = r.err,
                                !.nw = IF r.addr = NoAddr THEN last.nw ELSE -1]
        /\ UNCHANGED <<decohQ, nextKey>>
        /\ UNCHANGED llvars

MGet(byName, v, must) ==
    LET r == MemGet(memory[MemNode], byName, v, must)
    IN  /\ last' = [NoOp EXCEPT !.op = "get", !.byName = byName, !.v = v, !.must = must,
                                !.addr = r.addr, !.data = r.data, !.err = r.err,
                                !.nw = last.nw]
        /\ UNCHANGED <<memory, decohQ, nextKey>>
        /\ UNCHANGED llvars

MClear ==
    /\ memory' = [memory EXCEPT ![MemNode] = MemClear(@)]
    /\ last' = [NoOp EXCEPT !.op = "clear"]
    /\ UNCHANGED <<decohQ, nextKey>>
    /\ UNCHANGED llvars

MDecohere(ev) ==
    LET d == MemDecohere(memory[MemNode], ev.addr, ev.name)
    IN  /\ ev \in decohQ[MemNode]
        /\ memory' = [memory EXCEPT ![MemNode] = d.m]
        /\ decohQ' = [decohQ EXCEPT ![MemNode] = @ \ {ev}]
        /\ last' = [NoOp EXCEPT !.op = "decohere", !.v = ev.addr, !.name = ev.name,
                                !.addr = IF d.freed THEN ev.addr ELSE NoAddr,
                                !.nw = IF d.freed THEN -1 ELSE last.nw]
        /\ UNCHANGED nextKey
        /\ UNCHANGED llvars

\* ------------------------------------------------------------- topology
\* own.get_qchannel(peer).name: A - B - C in a line
QCh(n, m) ==
    IF {n, m} = {"A", "B"} THEN "AB" ELSE IF {n, m} = {"B", "C"} THEN "BC" ELSE NoCh

\* memory.assign(qchannel): the channel of each slot (dynamic mux: no path_id on qubits)
Assigned(topo) ==
    IF topo \in {"chain", "nested"}
    THEN [A |-> <<"AB">>, B |-> <<"AB", "BC">>, C |-> <<"BC">>]
    ELSE IF topo \in {"sync", "link"} THEN [A |-> <<"AB">>, B |-> <<"AB">>, C |-> <<>>]
    ELSE [A |-> <<"AB">>, B |-> <<"AB", "BC">>, C |-> <<"BC", "BC">>]

\* the node sequence of a path, per scenario
Route(topo, p) ==
    IF topo = "chain" THEN <<"A", "B", "C">>
    ELSE IF topo \in {"sync", "link"} THEN <<"A", "B">>
    ELSE IF topo = "nested" THEN (IF p = 1 THEN <<"A", "B", "C">> ELSE <<"A", "B">>)
    ELSE IF p = 1 THEN <<"A", "B">> ELSE <<"C", "B">>

IndexOf(route, n) == CHOOSE i \in 1 .. Len(route) : route[i] = n

OnRoute(route, n) == \E i \in 1 .. Len(route) : route[i] = n

\* swap sequence [1, 0, .., 0, 1]: the rank of a node of the path
SwapRank(route, n) ==
    IF IndexOf(route, n) \in {1, Len(route)} THEN 1 ELSE 0

Range(seq) == {seq[i] : i \in 1 .. Len(seq)}

\* ------------------------------------------------------------ link layer
\* The part of the state one handler of node n works on; out collects cchannel.send calls,
\* trans the (old, new) pairs of every qubit.state assignment made.
Local(n) ==
    [mem |-> memory[n], pend |-> pending_init_reservation[n],
     fifo |-> fifo_reservation_req[n], out |-> <<>>, key |-> nextKey, trans |-> {},
     raised |-> ""]

Msg(dst, cmd, path_id, key) == [dst |-> dst, cmd |-> cmd, path_id |-> path_id, key |-> key]

\* start_reservation: fresh key, qubit ACTIVE, pending record, RESERVE_QUBIT to next_hop
StartReservation(L, next_hop, ch, a) ==
    LET q == L.mem.storage[a]
        key == L.key
    IN  [L EXCEPT !.mem.storage[a] = [q EXCEPT !.state = "ACTIVE", !.active = key],
                  !.pend = @ \cup {[key |-> key, qchannel |-> ch, next_hop |-> next_hop,
                                    addr |-> a]},
                  !.out = Append(@, Msg(next_hop, "RESERVE_QUBIT", q.path_id, key)),
                  !.key = key + 1,
                  !.trans = @ \cup {<<q.state, "ACTIVE">>}]

RECURSIVE RunFrom(_, _, _, _, _)
RunFrom(L, ch, path_id, next_hop, a) ==
    IF a \notin DOMAIN L.mem.storage THEN L
    ELSE LET q == L.mem.storage[a]
         IN  IF q.qchannel # ch \/ q.path_id # path_id \/ q.state # "RAW"
             THEN RunFrom(L, ch, path_id, next_hop, a + 1)
             ELSE IF q.active # NoKey \/ q.data # NoData
             THEN [L EXCEPT !.raised = "run_active_channel: assert"]
             ELSE RunFrom(StartReservation(L, next_hop, ch, a), ch, path_id, next_hop, a + 1)

RunActiveChannel(L, ch, path_id, next_hop) == RunFrom(L, ch, path_id, next_hop, 0)

\* the free qubits with the request's path_id, on any channel
AcceptableOnAnyChannel(mem, req) ==
    {a \in DOMAIN mem.storage :
        /\ mem.storage[a].data = NoData
        /\ mem.storage[a].active = NoKey
        /\ mem.storage[a].path_id = req.path_id}

\* the qubits a reservation request may take
Acceptable(mem, req) ==
    {a \in DOMAIN mem.storage :
        /\ mem.storage[a].data = NoData
        /\ mem.storage[a].active = NoKey
        /\ mem.storage[a].qchannel = req.qchannel
        /\ mem.storage[a].path_id = req.path_id}

\* accepting with the qubit going from RAW to RESERVED directly
TryAcceptDirectly(L, req) ==
    IF Acceptable(L.mem, req) = {} THEN [ok |-> FALSE, L |-> L]
    ELSE LET a == Min(Acceptable(L.mem, req))
             q == L.mem.storage[a]
         IN  [ok |-> TRUE,
              L |-> [L EXCEPT !.mem.storage[a] = [q EXCEPT !.state = "RESERVED",
                                                           !.active = req.key],
                              !.out = Append(@, Msg(req.from_node, "RESERVE_QUBIT_OK",
                                                    req.path_id, req.key)),
                              !.trans = @ \cup {<<q.state, "RESERVED">>}]]

TryAcceptReservation(L, req) ==
    IF Acceptable(L.mem, req) = {} THEN [ok |-> FALSE, L |-> L]
    ELSE LET a == Min(Acceptable(L.mem, req))
             q == L.mem.storage[a]
         IN  [ok |-> TRUE,
              L |-> [L EXCEPT !.mem.storage[a] = [q EXCEPT !.state = "RESERVED",
                                                           !.active = req.key],
                              !.out = Append(@, Msg(req.from_node, "RESERVE_QUBIT_OK",
                                                    req.path_id, req.key)),
                              !.trans = @ \cup {<<q.state, "ACTIVE">>, <<"ACTIVE", "RESERVED">>}]]

\* cchannel.send for every collected packet, in order
Send(chans, n, out) ==
    [l \in Links |->
        IF l[1] = n THEN chans[l] \o SelectSeq(out, LAMBDA m : m.dst = l[2])
        ELSE chans[l]]

\* the packet at the head of link l has been received
Recv(l) == [cchan EXCEPT ![l] = Tail(@)]

\* the run draws no more reservation keys than the bound of its scenario
KeyBound ==
    IF cfg.topo = "fanin" THEN MaxQueueKeys
    ELSE IF cfg.topo \in {"sync", "link"} THEN MaxSyncKeys
    ELSE MaxKeys

\* the handler of node n ends with local state L
Commit(n, L, op, chans) ==
    /\ L.key <= KeyBound + 1
    /\ memory' = [memory EXCEPT ![n] = L.mem]
    /\ pending_init_reservation' = [pending_init_reservation EXCEPT ![n] = L.pend]
    /\ fifo_reservation_req' = [fifo_reservation_req EXCEPT ![n] = L.fifo]
    /\ cchan' = Send(chans, n, L.out)
    /\ nextKey' = L.key
    /\ raised' = L.raised
    /\ step' = [op |-> op, node |-> n, trans |-> L.trans, out |-> L.out]

\* no handler runs after an exception; events scheduled at the current time run first
Timed == raised = "" /\ urgent = <<>>

Urgent(type) == raised = "" /\ urgent # <<>> /\ Head(urgent).type = type

Ev(type, n, addr, neighbor) ==
    [type |-> type, node |-> n, addr |-> addr, neighbor |-> neighbor, start |-> FALSE,
     ch |-> NoCh, path_id |-> NoPath]

ManageActiveChannels(n, ch, path_id, neighbor, start) ==
    [type |-> "manage", node |-> n, addr |-> NoAddr, neighbor |-> neighbor, start |-> start,
     ch |-> ch, path_id |-> path_id]

\* faulty variant: the channel is run as soon as it is added, in every timing mode
AddActiveChannelRunsAtOnce(n, L, ch, path_id, neighbor) ==
    LET key == <<ch, path_id>>
        cnt == IF key \in DOMAIN active_channels[n] THEN active_channels[n][key].n ELSE 0
        ac == (key :> [neighbor |-> neighbor, n |-> cnt + 1]) @@ active_channels[n]
    IN  IF cnt + 1 > 1
        THEN [ac |-> ac,
              L |-> IF path_id # NoPath
                    THEN [L EXCEPT !.raised = "add_active_channel: assert path_id is None"]
                    ELSE L]
        ELSE [ac |-> ac, L |-> RunActiveChannel(L, ch, path_id, neighbor)]

\* faulty variant: a repeated start is accepted for a concrete path_id as well
AddActiveChannelAnyPath(n, L, ch, path_id, neighbor) ==
    LET key == <<ch, path_id>>
        cnt == IF key \in DOMAIN active_channels[n] THEN active_channels[n][key].n ELSE 0
        ac == (key :> [neighbor |-> neighbor, n |-> cnt + 1]) @@ active_channels[n]
    IN  IF cnt + 1 > 1
        THEN [ac |-> ac, L |-> L]
        ELSE [ac |-> ac,
              L |-> IF cfg.mode = "ASYNC" THEN RunActiveChannel(L, ch, path_id, neighbor)
                    ELSE L]

AddActiveChannel(n, L, ch, path_id, neighbor) ==
    LET key == <<ch, path_id>>
        cnt == IF key \in DOMAIN active_channels[n] THEN active_channels[n][key].n ELSE 0
        ac == (key :> [neighbor |-> neighbor, n |-> cnt + 1]) @@ active_channels[n]
    IN  IF cnt + 1 > 1
        THEN [ac |-> ac,
              L |-> IF path_id # NoPath
                    THEN [L EXCEPT !.raised = "add_active_channel: assert path_id is None"]
                    ELSE L]
        ELSE [ac |-> ac,
              L |-> IF cfg.mode = "ASYNC" THEN RunActiveChannel(L, ch, path_id, neighbor)
                    ELSE L]

\* faulty variant: the first stop event deletes the entry
RemoveActiveChannelAtOnce(n, L, ch, path_id, neighbor) ==
    LET key == <<ch, path_id>>
        old == active_channels[n]
    IN  IF key \notin DOMAIN old
        THEN [ac |-> old, L |-> [L EXCEPT !.raised = "remove_active_channel: KeyError"]]
        ELSE [ac |-> [k \in DOMAIN old \ {key} |-> old[k]], L |-> L]

\* faulty variant: the entry stays in the table when its count reaches zero
RemoveActiveChannelKeepsEntry(n, L, ch, path_id, neighbor) ==
    LET key == <<ch, path_id>>
        old == active_channels[n]
    IN  IF key \notin DOMAIN old
        THEN [ac |-> old, L |-> [L EXCEPT !.raised = "remove_active_channel: KeyError"]]
        ELSE [ac |-> [old EXCEPT ![key] = [neighbor |-> neighbor, n |-> old[key].n - 1]],
              L |-> L]

RemoveActiveChannel(n, L, ch, path_id, neighbor) ==
    LET key == <<ch, path_id>>
        old == active_channels[n]
    IN  IF key \notin DOMAIN old
        THEN [ac |-> old, L |-> [L EXCEPT !.raised = "remove_active_channel: KeyError"]]
        ELSE IF old[key].n - 1 = 0
        THEN [ac |-> [k \in DOMAIN old \ {key} |-> old[k]], L |-> L]
        ELSE [ac |-> [old EXCEPT ![key] = [neighbor |-> neighbor, n |-> old[key].n - 1]],
              L |-> L]

\* handle_manage_active_channels: ManageActiveChannels from the forwarder
HandleManageActiveChannels ==
    /\ Urgent("manage")
    /\ LET e == Head(urgent)
           n == e.node
           r == IF e.start THEN AddActiveChannel(n, Local(n), e.ch, e.path_id, e.neighbor)
                ELSE RemoveActiveChannel(n, Local(n), e.ch, e.path_id, e.neighbor)
       IN  /\ active_channels' = [active_channels EXCEPT ![n] = r.ac]
           /\ Commit(n, r.L, IF e.start THEN "add_active_channel" ELSE "remove_active_channel",
                     cchan)
    /\ urgent' = Tail(urgent)
    /\ UNCHANGED <<decohQ, last, cfg, phase, managed, parallel_swappings, events, fib, eprs, qchannel_paths_map, etg_count,
                   decoh_count>>

\* handle_reserve_req: RESERVE_QUBIT arrives at l[2] from l[1]
HandleReserveReq(l) ==
    /\ Timed
    /\ cchan[l] # <<>>
    /\ Head(cchan[l]).cmd = "RESERVE_QUBIT"
    /\ LET msg == Head(cchan[l])
           n == l[2]
           req == [key |-> msg.key, path_id |-> msg.path_id, from_node |-> l[1],
                   qchannel |-> QCh(n, l[1])]
           t == TryAcceptReservation(Local(n), req)
           L == IF t.ok THEN t.L ELSE [t.L EXCEPT !.fifo = Append(@, req)]
       IN  Commit(n, L, "handle_reserve_req", Recv(l))
    /\ UNCHANGED <<decohQ, last, cfg, phase, managed, parallel_swappings, active_channels, events, urgent, fib, eprs,
                   qchannel_paths_map, etg_count, decoh_count>>

\* faulty variant: the EPR does not carry the reservation key
NewEprWithoutKey(name, src, dst, key) ==
    [name |-> name, src |-> src, dst |-> dst, key |-> NoKey, tmp_path_ids |-> NoIds]

\* generate_entanglement: the EPR object both notifications will carry
NewEpr(name, src, dst, key) ==
    [name |-> name, src |-> src, dst |-> dst, key |-> key, tmp_path_ids |-> NoIds]

\* faulty variant: the record is looked up but stays in the table
PopPendingKeeps(pend, r) == pend

\* pending_init_reservation.pop(key)
PopPending(pend, r) == pend \ {r}

\* timing.is_external(): always in ASYNC mode, during the EXTERNAL phase in SYNC mode
IsExternal == cfg.mode = "ASYNC" \/ phase = "EXTERNAL"

\* timing.is_external(t): in SYNC mode t must also lie before the end of the phase
IsExternalAt(t, t_end) == cfg.mode = "ASYNC" \/ (phase = "EXTERNAL" /\ t < t_end)

Max(x, y) == IF x >= y THEN x ELSE y

\* what generate_entanglement computes from link_arch.delays and the clock: the two
\* notification times and the end of the current phase, in time slots from now
AttemptTimes ==
    IF cfg.mode = "ASYNC" THEN {[t_notify_a |-> 1, t_notify_b |-> 1, t_end |-> 0]}
    ELSE [t_notify_a : 1 .. MaxDelay, t_notify_b : 1 .. MaxDelay, t_end : {MaxDelay}]

\* faulty variant: the attempt is scheduled whatever the phase and the notification times
InTimeAlways(w) == TRUE

\* faulty variant: the attempt is kept if the earlier notification is in time
InTimeIfEitherIs(w) == IsExternalAt(Min({w.t_notify_a, w.t_notify_b}), w.t_end)

\* generate_entanglement: self.own.timing.is_external(max(t_notify_a, t_notify_b))
InTime(w) == IsExternalAt(Max(w.t_notify_a, w.t_notify_b), w.t_end)

\* handle_reserve_res: RESERVE_QUBIT_OK arrives at l[2]; then generate_entanglement
HandleReserveRes(l) ==
    /\ Timed
    /\ cchan[l] # <<>>
    /\ Head(cchan[l]).cmd = "RESERVE_QUBIT_OK"
    /\ \E w \in AttemptTimes :
       LET msg == Head(cchan[l])
           n == l[2]
           L0 == Local(n)
           recs == {r \in L0.pend : r.key = msg.key}
       IN  IF recs = {}
           THEN /\ Commit(n, [L0 EXCEPT !.raised = "handle_reserve_res: KeyError"],
                          "handle_reserve_res", Recv(l))
                /\ UNCHANGED <<events, eprs, last>>
           ELSE LET r == CHOOSE r \in recs : TRUE
                    q == L0.mem.storage[r.addr]
                    L1 == [L0 EXCEPT !.pend = PopPending(@, r)]
                IN  IF q.active # msg.key
                    THEN /\ Commit(n, [L1 EXCEPT !.raised = "assert qubit.active == key"],
                                   "handle_reserve_res", Recv(l))
                         /\ UNCHANGED <<events, eprs, last>>
                    ELSE /\ Commit(n, [L1 EXCEPT !.mem.storage[r.addr].state = "RESERVED",
                                                 !.trans = {<<q.state, "RESERVED">>}],
                                   "handle_reserve_res", Recv(l))
                         \* the EPR's own uuid4 name is drawn with its key: one value names both
                         /\ last' = IF cfg.mode = "ASYNC" THEN last
                                    ELSE [op |-> "generate_entanglement", key |-> msg.key,
                                          times |-> w]
                         /\ IF InTime(w)
                            THEN /\ eprs' = (msg.key :> NewEpr(msg.key, n, r.next_hop,
                                                               q.active)) @@ eprs
                                 /\ events' = events
                                       \cup {[node |-> n, epr |-> msg.key],
                                             [node |-> r.next_hop, epr |-> msg.key]}
                            ELSE \* the EPR would not arrive in time: nothing is scheduled
                                 UNCHANGED <<events, eprs>>
    /\ UNCHANGED <<decohQ, cfg, phase, managed, parallel_swappings, active_channels, urgent, fib,
                   qchannel_paths_map, etg_count, decoh_count>>

\* faulty variant: the half is written without asking for its reservation key
WriteAnyKey(epr) == NoKey

\* qubit = self.memory.write(epr, key=epr.key)
WriteKey(epr) == epr.key

\* faulty variant: every delivery counts
CountAtEveryEndpoint(cnt, is_primary) == cnt + 1

\* if is_primary: self.etg_count += 1
CountGeneration(cnt, is_primary) == IF is_primary THEN cnt + 1 ELSE cnt

\* handle_success_entangle: a LinkArchSuccessEvent is delivered
HandleSuccessEntangle(ev) ==
    /\ Timed
    /\ ev \in events
    /\ LET n == ev.node
           epr == eprs[ev.epr]
           is_primary == epr.src = n
           neighbor == IF is_primary THEN epr.dst ELSE epr.src
           w == MemWrite(memory[n], epr.name, NoPath, WriteKey(epr))
           L0 == Local(n)
       IN  IF ~IsExternal
           THEN /\ Commit(n, [L0 EXCEPT !.raised = "assert timing.is_external()"],
                          "handle_success_entangle", cchan)
                /\ UNCHANGED <<decohQ, urgent, etg_count>>
           ELSE
           /\ etg_count' = [etg_count EXCEPT ![n] = CountGeneration(@, is_primary)]
           /\ IF w.addr = NoAddr
              THEN /\ Commit(n, [L0 EXCEPT !.raised = "Failed to store EPR"],
                             "handle_success_entangle", cchan)
                   /\ UNCHANGED <<decohQ, urgent>>
              ELSE /\ Commit(n, [L0 EXCEPT !.mem = [w.m EXCEPT !.storage[w.addr].state =
                                                                   "ENTANGLED0"],
                                           !.trans = {<<memory[n].storage[w.addr].state,
                                                        "ENTANGLED0">>}],
                             "handle_success_entangle", cchan)
                   /\ decohQ' = [decohQ EXCEPT ![n] = @ \cup {[addr |-> w.addr,
                                                                name |-> epr.name]}]
                   /\ urgent' = Append(urgent, Ev("entangled", n, w.addr, neighbor))
    /\ events' = events \ {ev}
    /\ UNCHANGED <<last, cfg, phase, managed, parallel_swappings, active_channels, fib, eprs, qchannel_paths_map, decoh_count>>

\* faulty variant: the initiator leaves the qubit RAW
InitiatorSideIdle(L, next_hop, ch, a, is_decoh) == L

\* faulty variant: the reservation is restarted in every timing mode
InitiatorSideRestarts(L, next_hop, ch, a, is_decoh) == StartReservation(L, next_hop, ch, a)

\* handle_decoh_rel, "this node is the EPR initiator"
InitiatorSide(L, next_hop, ch, a, is_decoh) ==
    IF cfg.mode = "ASYNC"
    THEN StartReservation(L, next_hop, ch, a)
    ELSE IF is_decoh
    THEN [L EXCEPT !.raised = "UNEXPECTED -> (t_ext + t_int) too short"]
    ELSE L

\* faulty variant: an accepted request stays at the head of the queue
ResponderSideKeepsHead(L) ==
    IF L.fifo = <<>> THEN L
    ELSE TryAcceptReservation(L, Head(L.fifo)).L

\* handle_decoh_rel, "this node is not the EPR initiator": try the oldest queued request
ResponderSide(L) ==
    IF L.fifo = <<>> THEN L
    ELSE LET t == TryAcceptReservation(L, Head(L.fifo))
         IN  IF t.ok THEN [t.L EXCEPT !.fifo = Tail(@)] ELSE L

\* handle_decoh_rel: QubitDecoheredEvent or QubitReleasedEvent
HandleDecohRelBody(n, a, is_decoh) ==
    LET L0 == Local(n)
        q == L0.mem.storage[a]
        L1 == [L0 EXCEPT !.mem.storage[a] = [q EXCEPT !.state = "RAW", !.active = NoKey],
                         !.trans = {<<q.state, "RAW">>}]
        key == <<q.qchannel, q.path_id>>
    IN  IF q.qchannel = NoCh THEN [L1 EXCEPT !.raised = "assert qubit.qchannel is not None"]
        ELSE IF key \notin DOMAIN active_channels[n]
        THEN ResponderSide(L1)
        ELSE InitiatorSide(L1, active_channels[n][key].neighbor, q.qchannel, a, is_decoh)

HandleDecohRel ==
    /\ raised = "" /\ urgent # <<>>
    /\ Head(urgent).type \in {"released", "decohered"}
    /\ LET e == Head(urgent)
           is_decoh == e.type = "decohered"
       IN  /\ decoh_count' = [decoh_count EXCEPT ![e.node] = IF is_decoh THEN @ + 1 ELSE @]
           /\ Commit(e.node, HandleDecohRelBody(e.node, e.addr, is_decoh), "handle_decoh_rel",
                     cchan)
    /\ urgent' = Tail(urgent)
    /\ UNCHANGED <<decohQ, last, cfg, phase, managed, parallel_swappings, active_channels, events, fib, eprs,
                   qchannel_paths_map, etg_count>>

\* handle_sync_phase, EXTERNAL: run_active_channel for every entry of active_channels
RECURSIVE RunAll(_, _, _)
RunAll(L, ac, keys) ==
    IF keys = {} \/ L.raised # "" THEN L
    ELSE LET k == CHOOSE k \in keys : TRUE
         IN  RunAll(RunActiveChannel(L, k[1], k[2], ac[k].neighbor), ac, keys \ {k})

\* handle_sync_phase: the TimingPhaseEvent of the new phase is delivered at a node
HandleSyncPhase ==
    /\ Urgent("phase")
    /\ LET n == Head(urgent).node
           L0 == Local(n)
       IN  IF phase = "EXTERNAL"
           THEN Commit(n, RunAll([L0 EXCEPT !.mem = MemClear(@)], active_channels[n],
                                 DOMAIN active_channels[n]),
                       "handle_sync_phase", cchan)
           ELSE Commit(n, L0, "handle_sync_phase", cchan)
    /\ urgent' = Tail(urgent)
    /\ UNCHANGED <<decohQ, last, cfg, phase, managed, parallel_swappings, active_channels, events, fib, eprs,
                   qchannel_paths_map, etg_count, decoh_count>>

\* ------------------------------------------------- statistical multiplexing
\* install_path_neighbor: qchannel_paths_map[qchannel.name].append(path_id)
InstallPathNeighbor(m, ch, p) ==
    IF ch \in DOMAIN m THEN [m EXCEPT ![ch] = Append(@, p)] ELSE (ch :> <<p>>) @@ m

RemoveFirst(seq, p) ==
    LET i == Min({j \in 1 .. Len(seq) : seq[j] = p})
    IN  SubSeq(seq, 1, i - 1) \o SubSeq(seq, i + 1, Len(seq))

\* faulty variant: every registration of the path on the channel is removed
UninstallPathNeighborAll(m, ch, p) ==
    LET paths == SelectSeq(m[ch], LAMBDA x : x # p)
    IN  IF Len(paths) = 0 THEN [c \in DOMAIN m \ {ch} |-> m[c]] ELSE [m EXCEPT ![ch] = paths]

\* uninstall_path_neighbor: paths.remove(path_id); the key is deleted with its last path
UninstallPathNeighbor(m, ch, p) ==
    LET paths == RemoveFirst(m[ch], p)
    IN  IF Len(paths) = 0 THEN [c \in DOMAIN m \ {ch} |-> m[c]] ELSE [m EXCEPT ![ch] = paths]

\* _qubit_is_entangled_0: the paths registered on the qubit's channel
PossiblePathIds(m, ch) == IF ch \in DOMAIN m THEN m[ch] ELSE <<>>

\* faulty variant: the candidate set of the EPR is left as it was found
TmpPathIdsUnassigned(tmp, possible, coordinated) == [tmp |-> tmp, raised |-> ""]

\* qubit_is_entangled, lines 139-146: the candidate set of the EPR, or a failed assertion
TmpPathIds(tmp, possible, coordinated) ==
    IF tmp = NoIds THEN [tmp |-> possible, raised |-> ""]
    ELSE IF coordinated
    THEN [tmp |-> tmp,
          raised |-> IF tmp \subseteq possible THEN ""
                     ELSE "assert tmp_path_ids.issubset(possible_path_ids)"]
    ELSE [tmp |-> tmp,
          raised |-> IF tmp = possible THEN ""
                     ELSE "assert tmp_path_ids == possible_path_ids"]

\* _can_enter_purif: own swap rank minus the neighbor's, over every candidate path
RankDiffs(topo, n, neighbor, tmp) ==
    {SwapRank(Route(topo, p), n) - SwapRank(Route(topo, p), neighbor) : p \in tmp}

\* faulty variant: the candidates are not required to agree
CanEnterPurifAnyRank(topo, n, neighbor, tmp) ==
    LET d == RankDiffs(topo, n, neighbor, tmp)
    IN  [ok |-> (\E x \in d : x <= 0), raised |-> ""]

\* faulty variant: the qubit enters purification only below the neighbor's rank
CanEnterPurifStrict(topo, n, neighbor, tmp) ==
    LET d == RankDiffs(topo, n, neighbor, tmp)
    IN  IF Cardinality(d) # 1
        THEN [ok |-> FALSE, raised |-> "assert min(rank_diff) == max(rank_diff)"]
        ELSE [ok |-> (CHOOSE x \in d : TRUE) < 0, raised |-> ""]

CanEnterPurif(topo, n, neighbor, tmp) ==
    LET d == RankDiffs(topo, n, neighbor, tmp)
    IN  IF Cardinality(d) # 1
        THEN [ok |-> FALSE, raised |-> "assert min(rank_diff) == max(rank_diff)"]
        ELSE [ok |-> (CHOOSE x \in d : TRUE) <= 0, raised |-> ""]

\* faulty variant: the content stays in the slot of a released qubit
ReleaseQubitKeepsContent(L, a, read) ==
    [L EXCEPT !.mem.storage[a].state = "RELEASE",
              !.trans = @ \cup {<<L.mem.storage[a].state, "RELEASE">>}]

\* forwarder.release_qubit(qubit, read): the qubit goes to RELEASE, its event is posted
ReleaseQubit(L, a, read) ==
    LET m == IF read THEN MemRead(L.mem, FALSE, a, FALSE).m ELSE L.mem
    IN  [L EXCEPT !.mem = [m EXCEPT !.storage[a].state = "RELEASE"],
                  !.trans = @ \cup {<<L.mem.storage[a].state, "RELEASE">>}]

\* the forwarder hands a QubitEntangledEvent to mux.qubit_is_entangled(qubit, neighbor)
QubitIsEntangled ==
    /\ Urgent("entangled")
    /\ LET e == Head(urgent)
           n == e.node
           a == e.addr
           L0 == Local(n)
           q == L0.mem.storage[a]
           possible == PossiblePathIds(qchannel_paths_map[n], q.qchannel)
           g == MemGet(L0.mem, FALSE, a, TRUE)
       IN  IF q.path_id # NoPath \/ q.qchannel = NoCh
           THEN /\ Commit(n, [L0 EXCEPT !.raised = "_qubit_is_entangled_0: assert"],
                          "qubit_is_entangled", cchan)
                /\ urgent' = Tail(urgent)
                /\ UNCHANGED eprs
           ELSE IF possible = <<>>
           THEN \* all paths on the channel have been uninstalled
                /\ Commit(n, ReleaseQubit(L0, a, TRUE), "qubit_is_entangled", cchan)
                /\ urgent' = Append(Tail(urgent), Ev("released", n, a, ""))
                /\ UNCHANGED eprs
           ELSE IF g.err # ""
           THEN /\ Commit(n, [L0 EXCEPT !.raised = "memory.get: not found"],
                          "qubit_is_entangled", cchan)
                /\ urgent' = Tail(urgent)
                /\ UNCHANGED eprs
           ELSE LET t == TmpPathIds(eprs[g.data].tmp_path_ids, Range(possible),
                                    cfg.coordinated)
                    c == CanEnterPurif(cfg.topo, n, e.neighbor, t.tmp)
                    err == IF t.raised # "" THEN t.raised ELSE c.raised
                IN  /\ eprs' = [eprs EXCEPT ![g.data].tmp_path_ids = t.tmp]
                    /\ urgent' = Tail(urgent)
                    /\ IF err # ""
                       THEN Commit(n, [L0 EXCEPT !.raised = err], "qubit_is_entangled", cchan)
                       ELSE IF c.ok
                       THEN Commit(n, [L0 EXCEPT !.mem.storage[a].state = "ELIGIBLE",
                                                 !.trans = {<<q.state, "PURIF">>,
                                                            <<"PURIF", "ELIGIBLE">>}],
                                   "qubit_is_entangled", cchan)
                       ELSE Commit(n, L0, "qubit_is_entangled", cchan)
    /\ UNCHANGED <<decohQ, last, cfg, phase, managed, parallel_swappings, active_channels, events, fib, qchannel_paths_map,
                   etg_count, decoh_count>>

\* ------------------------------------------------ forwarder and environment
Left(route, n) == IF IndexOf(route, n) > 1 THEN route[IndexOf(route, n) - 1] ELSE ""

Right(route, n) == IF IndexOf(route, n) < Len(route) THEN route[IndexOf(route, n) + 1] ELSE ""

\* the node's neighbors on the path, left one first
PathNeighbors(route, n) ==
    (IF Left(route, n) = "" THEN <<>> ELSE <<Left(route, n)>>)
        \o (IF Right(route, n) = "" THEN <<>> ELSE <<Right(route, n)>>)

RECURSIVE InstallAll(_, _, _, _)
InstallAll(m, n, nbs, p) ==
    IF nbs = <<>> THEN m
    ELSE InstallAll(InstallPathNeighbor(m, QCh(n, Head(nbs)), p), n, Tail(nbs), p)

RECURSIVE UninstallAll(_, _, _, _)
UninstallAll(m, n, nbs, p) ==
    IF nbs = <<>> THEN m
    ELSE UninstallAll(UninstallPathNeighbor(m, QCh(n, Head(nbs)), p), n, Tail(nbs), p)

\* installations and removals made so far
PathOps ==
    LET W(x) == IF x = "no" THEN 0 ELSE IF x = "yes" THEN 1 ELSE 2
        RECURSIVE Sum(_)
        Sum(S) == IF S = {} THEN 0
                  ELSE LET x == CHOOSE x \in S : TRUE IN W(fib[x[1]][x[2]]) + Sum(S \ {x})
    IN  Sum(Nodes \X PathIds)

\* the forwarder installs path p at node n: the mux registers the path on the channel to
\* each neighbor, and the channel to the right neighbor is started at the link layer
InstallPath(n, p) ==
    /\ Timed
    /\ OnRoute(Route(cfg.topo, p), n)
    /\ fib[n][p] = "no"
    /\ PathOps < MaxPathOps
    /\ LET route == Route(cfg.topo, p)
           r == Right(route, n)
       IN  /\ qchannel_paths_map' =
                 [qchannel_paths_map EXCEPT
                     ![n] = InstallAll(@, n, PathNeighbors(route, n), p)]
           /\ urgent' = IF r = "" THEN urgent
                        ELSE Append(urgent, ManageActiveChannels(n, QCh(n, r), NoPath, r, TRUE))
    /\ fib' = [fib EXCEPT ![n][p] = "yes"]
    /\ step' = [op |-> "install_path", node |-> n, trans |-> {}, out |-> <<>>]
    /\ UNCHANGED <<memory, decohQ, nextKey, last, cfg, phase, managed, parallel_swappings, active_channels,
                   pending_init_reservation, fifo_reservation_req, cchan, events, raised,
                   eprs, etg_count, decoh_count>>

\* the forwarder uninstalls path p at node n
UninstallPath(n, p) ==
    /\ Timed
    /\ fib[n][p] = "yes"
    /\ PathOps < MaxPathOps
    /\ LET route == Route(cfg.topo, p)
           r == Right(route, n)
       IN  /\ qchannel_paths_map' =
                 [qchannel_paths_map EXCEPT
                     ![n] = UninstallAll(@, n, PathNeighbors(route, n), p)]
           /\ urgent' = IF r = "" THEN urgent
                        ELSE Append(urgent, ManageActiveChannels(n, QCh(n, r), NoPath, r, FALSE))
    /\ fib' = [fib EXCEPT ![n][p] = "removed"]
    /\ step' = [op |-> "uninstall_path", node |-> n, trans |-> {}, out |-> <<>>]
    /\ UNCHANGED <<memory, decohQ, nextKey, last, cfg, phase, managed, parallel_swappings, active_channels,
                   pending_init_reservation, fifo_reservation_req, cchan, events, raised,
                   eprs, etg_count, decoh_count>>

\* the forwarder is done with an entangled qubit (consumed or swapped): release_qubit
FwRelease(n, a) ==
    /\ Timed
    /\ a \in DOMAIN memory[n].storage
    /\ memory[n].storage[a].state \in {"ENTANGLED0", "ELIGIBLE"}
    /\ memory[n].storage[a].data # NoData
    /\ Commit(n, ReleaseQubit(Local(n), a, TRUE), "release_qubit", cchan)
    /\ urgent' = Append(urgent, Ev("released", n, a, ""))
    /\ UNCHANGED <<decohQ, last, cfg, phase, managed, parallel_swappings, active_channels, events, fib, eprs,
                   qchannel_paths_map, etg_count, decoh_count>>

\* a QubitReleasedEvent is posted for a qubit that is RAW already, with no key
PostRelease(n, a) ==
    /\ Timed
    /\ a \in DOMAIN memory[n].storage
    /\ memory[n].storage[a].state = "RAW"
    /\ memory[n].storage[a].active = NoKey
    /\ memory[n].storage[a].data = NoData
    /\ urgent' = Append(urgent, Ev("released", n, a, ""))
    /\ step' = [op |-> "post_release", node |-> n, trans |-> {}, out |-> <<>>]
    /\ UNCHANGED <<memory, decohQ, nextKey, last, cfg, phase, managed, parallel_swappings, active_channels,
                   pending_init_reservation, fifo_reservation_req, cchan, events, fib,
                   raised, eprs, qchannel_paths_map, etg_count, decoh_count>>

\* a QubitReleasedEvent is posted for a reserved qubit whose entanglement notification is
\* still on its way
PostReleasePending(n, a) ==
    /\ Timed
    /\ a \in DOMAIN memory[n].storage
    /\ memory[n].storage[a].state = "RESERVED"
    /\ memory[n].storage[a].data = NoData
    /\ \E ev \in events : ev.node = n /\ eprs[ev.epr].key = memory[n].storage[a].active
    /\ urgent' = Append(urgent, Ev("released", n, a, ""))
    /\ step' = [op |-> "post_release", node |-> n, trans |-> {}, out |-> <<>>]
    /\ UNCHANGED <<memory, decohQ, nextKey, last, cfg, phase, managed, parallel_swappings,
                   active_channels, pending_init_reservation, fifo_reservation_req, cchan,
                   events, fib, raised, eprs, qchannel_paths_map, etg_count, decoh_count>>

\* a scheduled memory decoherence event fires at node n
Decohere(n, ev) ==
    /\ Timed
    /\ ev \in decohQ[n]
    /\ LET d == MemDecohere(memory[n], ev.addr, ev.name)
           L0 == Local(n)
       IN  /\ Commit(n, [L0 EXCEPT !.mem = d.m,
                                   !.trans = IF d.freed
                                             THEN {<<memory[n].storage[ev.addr].state,
                                                     "RELEASE">>}
                                             ELSE {}],
                     "decoherence", cchan)
           /\ urgent' = IF d.freed THEN Append(urgent, Ev("decohered", n, ev.addr, ""))
                        ELSE urgent
    /\ decohQ' = [decohQ EXCEPT ![n] = @ \ {ev}]
    /\ UNCHANGED <<last, cfg, phase, managed, parallel_swappings, active_channels, events, fib, eprs, qchannel_paths_map,
                   etg_count, decoh_count>>

\* ------------------------------------------------------ the network
\* A - B - C in a line with both paths from A to C, statistical multiplexing, ASYNC timing
Chain == [mode |-> "ASYNC", coordinated |-> FALSE, topo |-> "chain"]

\* A and C both reserve at B: path 1 is A - B, path 2 is C - B
FanIn == [mode |-> "ASYNC", coordinated |-> FALSE, topo |-> "fanin"]

InitNet(scenario) ==
    /\ cfg = scenario
    /\ phase = IF scenario.mode = "SYNC" THEN "INTERNAL" ELSE "EXTERNAL"
    /\ managed = NothingManaged
    /\ parallel_swappings = [n \in Nodes |-> {}]
    /\ memory = [n \in Nodes |->
                   [storage |-> [a \in 0 .. Len(Assigned(scenario.topo)[n]) - 1 |->
                                    RawQubit(Assigned(scenario.topo)[n][a + 1], NoPath)],
                    usage |-> 0]]
    /\ decohQ = [n \in Nodes |-> {}]
    /\ nextKey = 1
    /\ last = NoOp
    /\ active_channels = [n \in Nodes |-> EmptyFn]
    /\ pending_init_reservation = [n \in Nodes |-> {}]
    /\ fifo_reservation_req = [n \in Nodes |-> <<>>]
    /\ cchan = [l \in Links |-> <<>>]
    /\ events = {}
    /\ urgent = <<>>
    /\ fib = [n \in Nodes |-> [p \in PathIds |-> "no"]]
    /\ raised = ""
    /\ eprs = EmptyFn
    /\ qchannel_paths_map = [n \in Nodes |-> EmptyFn]
    /\ etg_count = [n \in Nodes |-> 0]
    /\ decoh_count = [n \in Nodes |-> 0]
    /\ step = [op |-> "init", node |-> "", trans |-> {}, out |-> <<>>]

Init == InitNet(Chain)

Next ==
    \/ \E n \in Nodes, p \in PathIds : InstallPath(n, p)
    \/ \E n \in Nodes, p \in PathIds : UninstallPath(n, p)
    \/ HandleManageActiveChannels
    \/ \E l \in Links : HandleReserveReq(l)
    \/ \E l \in Links : HandleReserveRes(l)
    \/ \E ev \in events : HandleSuccessEntangle(ev)
    \/ QubitIsEntangled
    \/ \E n \in Nodes, a \in 0 .. 1 : FwRelease(n, a)
    \/ \E n \in Nodes : \E ev \in decohQ[n] : Decohere(n, ev)
    \/ HandleDecohRel

Spec == Init /\ [][Next]_vars

\* the reservation queue of B in the fan-in: no path is removed, and qubits leave the
\* entangled states by decoherence only
InitQueue == InitNet(FanIn)

NextQueue ==
    \/ \E n \in Nodes, p \in PathIds : InstallPath(n, p)
    \/ HandleManageActiveChannels
    \/ \E l \in Links : HandleReserveReq(l)
    \/ \E l \in Links : HandleReserveRes(l)
    \/ \E ev \in events : HandleSuccessEntangle(ev)
    \/ QubitIsEntangled
    \/ \E n \in Nodes, a \in 0 .. 1 : PostRelease(n, a)
    \/ \E n \in Nodes : \E ev \in decohQ[n] : Decohere(n, ev)
    \/ HandleDecohRel

SpecQueue == InitQueue /\ [][NextQueue]_vars

\* path 2 (A - B) is a prefix of path 1 (A - B - C): B is an interior node of one and an
\* end node of the other
Nested == [mode |-> "ASYNC", coordinated |-> FALSE, topo |-> "nested"]

InitRank == InitNet(Nested)

NextRank ==
    \/ \E n \in Nodes, p \in PathIds : InstallPath(n, p)
    \/ HandleManageActiveChannels
    \/ \E l \in Links : HandleReserveReq(l)
    \/ \E l \in Links : HandleReserveRes(l)
    \/ \E ev \in events : HandleSuccessEntangle(ev)
    \/ QubitIsEntangled
    \/ HandleDecohRel

SpecRank == InitRank /\ [][NextRank]_vars

\* the link A - B in ASYNC mode, where a reserved qubit can be released before its
\* notification arrives
StaleLink == [mode |-> "ASYNC", coordinated |-> FALSE, topo |-> "link"]

InitStale == InitNet(StaleLink)

NextStale ==
    \/ \E n \in Nodes, p \in PathIds : InstallPath(n, p)
    \/ HandleManageActiveChannels
    \/ \E l \in Links : HandleReserveReq(l)
    \/ \E l \in Links : HandleReserveRes(l)
    \/ \E ev \in events : HandleSuccessEntangle(ev)
    \/ QubitIsEntangled
    \/ \E n \in Nodes, a \in 0 .. 1 : PostReleasePending(n, a)
    \/ HandleDecohRel

SpecStale == InitStale /\ [][NextStale]_vars

\* ---------------------------------------------------------------- progress
\* The fan-in in ASYNC mode with every scheduled event and every packet eventually handled.
\* The forwarder of a responder eventually releases each qubit that holds a half; the
\* forwarder of an initiator may release its qubits as long as reservation keys remain
\* for the restart and for the channels still to be started.
InitiatorOf(n, a) ==
    /\ a \in DOMAIN memory[n].storage
    /\ <<memory[n].storage[a].qchannel, memory[n].storage[a].path_id>>
          \in DOMAIN active_channels[n]

\* the qubits that the first start of a channel not yet active will reserve
ToStart ==
    {x \in Nodes \X (0 .. 1) :
        /\ x[2] \in DOMAIN memory[x[1]].storage
        /\ ~InitiatorOf(x[1], x[2])
        /\ \E p \in PathIds :
              /\ OnRoute(Route(cfg.topo, p), x[1])
              /\ Right(Route(cfg.topo, p), x[1]) # ""
              /\ memory[x[1]].storage[x[2]].qchannel
                    = QCh(x[1], Right(Route(cfg.topo, p), x[1]))}

ReleaseAtInitiator(n, a) ==
    /\ nextKey + Cardinality(ToStart) <= MaxLiveKeys
    /\ InitiatorOf(n, a)
    /\ FwRelease(n, a)

ReleaseAtResponder(n, a) ==
    /\ ~InitiatorOf(n, a)
    /\ FwRelease(n, a)

InitLive == InitNet(FanIn)

NextLive ==
    \/ \E n \in Nodes, p \in PathIds : InstallPath(n, p)
    \/ HandleManageActiveChannels
    \/ \E l \in Links : HandleReserveReq(l)
    \/ \E l \in Links : HandleReserveRes(l)
    \/ \E ev \in events : HandleSuccessEntangle(ev)
    \/ QubitIsEntangled
    \/ \E n \in Nodes, a \in 0 .. 1 : ReleaseAtInitiator(n, a)
    \/ \E n \in Nodes, a \in 0 .. 1 : ReleaseAtResponder(n, a)
    \/ HandleDecohRel

\* the directed links of the fan-in, the nodes that answer requests on it, and the
\* qubits its initiators reserve
Wired == {l \in Links : QCh(l[1], l[2]) # NoCh}

Responders ==
    {n \in Nodes : \E p \in PathIds :
        OnRoute(Route("fanin", p), n) /\ Left(Route("fanin", p), n) # ""}

InitiatorQubits ==
    {x \in Nodes \X (0 .. 1) :
        /\ x[2] < Len(Assigned("fanin")[x[1]])
        /\ \E p \in PathIds :
              /\ OnRoute(Route("fanin", p), x[1])
              /\ Right(Route("fanin", p), x[1]) # ""
              /\ Assigned("fanin")[x[1]][x[2] + 1] = QCh(x[1], Right(Route("fanin", p), x[1]))}

\* events at the current time, packets and notifications are delivered; a responder's
\* occupied qubit is released
FairLive ==
    /\ WF_vars(HandleManageActiveChannels)
    /\ WF_vars(QubitIsEntangled)
    /\ WF_vars(HandleDecohRel)
    /\ \A l \in Wired : WF_vars(HandleReserveReq(l))
    /\ \A l \in Wired : WF_vars(HandleReserveRes(l))
    /\ WF_vars(\E ev \in events : HandleSuccessEntangle(ev))
    /\ \A n \in Responders, a \in 0 .. 1 : SF_vars(ReleaseAtResponder(n, a))

SpecLive == InitLive /\ [][NextLive]_vars /\ FairLive

\* -------------------------------------------------- path instructions
RECURSIVE SeqsUpTo(_, _)
SeqsUpTo(S, n) ==
    IF n = 0 THEN {<<>>}
    ELSE SeqsUpTo(S, n - 1) \cup {Append(q, x) : q \in SeqsUpTo(S, n - 1), x \in S}

\* instructions: the route's length, instructions["swap"], the values of
\* instructions["purif"], and whether the key "m_v" is present
PathInstructions ==
    [route_len : 2 .. MaxRoute, swap : SeqsUpTo({0, 1}, MaxRoute),
     purif : SeqsUpTo({0, 1}, MaxSegments), m_v : BOOLEAN]

\* faulty variant: the interior of the swap sequence is not looked at
ValidateEndpointsOnly(instructions) ==
    LET swap == instructions.swap
    IN  IF Len(swap) # instructions.route_len
        THEN "validate_path_instructions: swap sequence length"
        ELSE IF instructions.m_v THEN "assert m_v not in instructions"
        ELSE IF Len(swap) < 2 THEN "ValueError: not enough values to unpack"
        ELSE IF ~(swap[1] = 1 /\ swap[Len(swap)] = 1) THEN "assert s0 == 1 == s2"
        ELSE IF \E i \in 1 .. Len(instructions.purif) : instructions.purif[i] # 0
        THEN "assert all r == 0"
        ELSE ""

\* MuxSchemeStatistical.validate_path_instructions: the failure raised, or "" when the
\* instructions are accepted; the first check is the one of the message module
ValidatePathInstructions(instructions) ==
    LET swap == instructions.swap
    IN  IF Len(swap) # instructions.route_len
        THEN "validate_path_instructions: swap sequence length"
        ELSE IF instructions.m_v THEN "assert m_v not in instructions"
        ELSE IF Len(swap) < 2 THEN "ValueError: not enough values to unpack"
        ELSE IF ~(swap[1] = 1 /\ swap[Len(swap)] = 1) THEN "assert s0 == 1 == s2"
        ELSE IF \E i \in 2 .. Len(swap) - 1 : swap[i] # 0 THEN "assert all s == 0"
        ELSE IF \E i \in 1 .. Len(instructions.purif) : instructions.purif[i] # 0
        THEN "assert all r == 0"
        ELSE ""

\* the forwarder of B receives path instructions and has its mux validate them
Validate ==
    /\ raised = ""
    /\ last.op = "instructions"
    /\ last' = [last EXCEPT !.op = "validate_path_instructions"]
    /\ raised' = ValidatePathInstructions(last.instructions)
    /\ step' = [op |-> "validate_path_instructions", node |-> "B", trans |-> {},
                out |-> <<>>]
    /\ UNCHANGED <<memory, decohQ, nextKey, cfg, phase, managed, parallel_swappings,
                   active_channels, pending_init_reservation, fifo_reservation_req, cchan,
                   events, urgent, fib, eprs, qchannel_paths_map, etg_count, decoh_count>>

\* and, validation passed, installs the path
InstallValidated ==
    /\ raised = ""
    /\ last.op = "validate_path_instructions"
    /\ fib["B"][1] = "no"
    /\ fib' = [fib EXCEPT !["B"][1] = "yes"]
    /\ qchannel_paths_map' =
          [qchannel_paths_map EXCEPT !["B"] = InstallPathNeighbor(@, "AB", 1)]
    /\ step' = [op |-> "install_path", node |-> "B", trans |-> {}, out |-> <<>>]
    /\ UNCHANGED <<memory, decohQ, nextKey, last, cfg, phase, managed, parallel_swappings,
                   active_channels, pending_init_reservation, fifo_reservation_req, cchan,
                   events, urgent, raised, eprs, etg_count, decoh_count>>

InitValidate ==
    /\ \E instructions \in PathInstructions :
          last = [op |-> "instructions", instructions |-> instructions]
    /\ cfg = [mode |-> "ASYNC", coordinated |-> FALSE, topo |-> "validate"]
    /\ phase = "EXTERNAL"
    /\ managed = NothingManaged
    /\ parallel_swappings = [n \in Nodes |-> {}]
    /\ memory = [n \in Nodes |-> NewMemory(0)]
    /\ decohQ = [n \in Nodes |-> {}]
    /\ nextKey = 1
    /\ active_channels = [n \in Nodes |-> EmptyFn]
    /\ pending_init_reservation = [n \in Nodes |-> {}]
    /\ fifo_reservation_req = [n \in Nodes |-> <<>>]
    /\ cchan = [l \in Links |-> <<>>]
    /\ events = {}
    /\ urgent = <<>>
    /\ fib = [n \in Nodes |-> [p \in PathIds |-> "no"]]
    /\ raised = ""
    /\ eprs = EmptyFn
    /\ qchannel_paths_map = [n \in Nodes |-> EmptyFn]
    /\ etg_count = [n \in Nodes |-> 0]
    /\ decoh_count = [n \in Nodes |-> 0]
    /\ step = [op |-> "init", node |-> "", trans |-> {}, out |-> <<>>]

NextValidate == Validate \/ InstallValidated

SpecValidate == InitValidate /\ [][NextValidate]_vars

\* the mux of node B alone: any sequence of install_path_neighbor calls and of
\* uninstall_path_neighbor calls for a path registered on the channel
Registered(m) ==
    LET RECURSIVE Sum(_)
        Sum(S) == IF S = {} THEN 0
                  ELSE LET c == CHOOSE c \in S : TRUE IN Len(m[c]) + Sum(S \ {c})
    IN  Sum(DOMAIN m)

MuxInstall(ch, p) ==
    /\ raised = ""
    /\ Registered(qchannel_paths_map["B"]) < MaxInstalls
    /\ qchannel_paths_map' =
          [qchannel_paths_map EXCEPT !["B"] = InstallPathNeighbor(@, ch, p)]
    /\ last' = [op |-> "install_path_neighbor", ch |-> ch, path_id |-> p,
                before |-> qchannel_paths_map["B"]]
    /\ step' = [op |-> "install_path_neighbor", node |-> "B", trans |-> {},
                out |-> <<>>]
    /\ UNCHANGED <<memory, decohQ, nextKey, cfg, phase, managed, parallel_swappings,
                   active_channels, pending_init_reservation, fifo_reservation_req, cchan,
                   events, urgent, fib, raised, eprs, etg_count, decoh_count>>

MuxUninstall(ch, p) ==
    /\ raised = ""
    /\ p \in Range(PossiblePathIds(qchannel_paths_map["B"], ch))
    /\ qchannel_paths_map' =
          [qchannel_paths_map EXCEPT !["B"] = UninstallPathNeighbor(@, ch, p)]
    /\ last' = [op |-> "uninstall_path_neighbor", ch |-> ch, path_id |-> p,
                before |-> qchannel_paths_map["B"]]
    /\ step' = [op |-> "uninstall_path_neighbor", node |-> "B", trans |-> {},
                out |-> <<>>]
    /\ UNCHANGED <<memory, decohQ, nextKey, cfg, phase, managed, parallel_swappings,
                   active_channels, pending_init_reservation, fifo_reservation_req, cchan,
                   events, urgent, fib, raised, eprs, etg_count, decoh_count>>

InitPaths == InitNet([mode |-> "ASYNC", coordinated |-> FALSE, topo |-> "paths"])

NextPaths ==
    \/ \E ch \in {"AB", "BC"}, p \in PathIds : MuxInstall(ch, p)
    \/ \E ch \in {"AB", "BC"}, p \in PathIds : MuxUninstall(ch, p)

SpecPaths == InitPaths /\ [][NextPaths]_vars

\* ------------------------------------------ merging path candidates (mux)
\* intersect_tmp_path_ids without its check for an empty result
IntersectSilently(ids0, ids1) ==
    IF ids0 = NoIds \/ ids1 = NoIds
    THEN [ids |-> NoIds, raised |-> "assert tmp_path_ids is not None"]
    ELSE [ids |-> ids0 \cap ids1, raised |-> ""]

\* intersect_tmp_path_ids(epr0, epr1): the common path ids, or the exception raised
IntersectTmpPathIds(ids0, ids1) ==
    IF ids0 = NoIds \/ ids1 = NoIds
    THEN [ids |-> NoIds, raised |-> "assert tmp_path_ids is not None"]
    ELSE IF ids0 \cap ids1 = {}
    THEN [ids |-> NoIds, raised |-> "Cannot select path ID"]
    ELSE [ids |-> ids0 \cap ids1, raised |-> ""]

\* has_intersect_tmp_path_ids
HasIntersectTmpPathIds(ids0, ids1) ==
    ids0 # NoIds /\ ids1 # NoIds /\ ids0 \cap ids1 # {}

\* the assignment  target.tmp_path_ids = intersect_tmp_path_ids(epr0, epr1)
Merge(op, epr0, epr1, target) ==
    /\ raised = ""
    /\ LET r == IntersectTmpPathIds(eprs[epr0].tmp_path_ids, eprs[epr1].tmp_path_ids)
       IN  /\ raised' = r.raised
           /\ eprs' = IF r.raised = "" THEN [eprs EXCEPT ![target].tmp_path_ids = r.ids]
                      ELSE eprs
    /\ last' = [op |-> op, epr0 |-> epr0, epr1 |-> epr1, target |-> target]
    /\ UNCHANGED <<memory, decohQ, nextKey, cfg, phase, managed, parallel_swappings, active_channels, pending_init_reservation,
                   fifo_reservation_req, cchan, events, urgent, fib, qchannel_paths_map,
                   etg_count, decoh_count, step>>

\* swapping_succeeded(prev_epr, next_epr, new_epr)
SwappingSucceeded(prev_epr, next_epr, new_epr) ==
    Merge("swapping_succeeded", prev_epr, next_epr, new_epr)

\* su_parallel_succeeded(merged_epr, new_epr, other_epr)
SuParallelSucceeded(merged_epr, new_epr, other_epr) ==
    Merge("su_parallel_succeeded", new_epr, other_epr, merged_epr)

\* the candidate sets an EPR may carry: None, or any set of path ids
TmpPathIdSets == {NoIds} \cup SUBSET PathIds

EprNames == 1 .. 3

\* three EPRs with arbitrary candidate sets; nothing else is going on
InitSwap ==
    /\ eprs \in {f \in [EprNames -> [name : EprNames, src : {"A"}, dst : {"B"},
                                     key : {NoKey}, tmp_path_ids : TmpPathIdSets]] :
                    \A e \in EprNames : f[e].name = e}
    /\ memory = [n \in Nodes |-> NewMemory(0)]
    /\ decohQ = [n \in Nodes |-> {}]
    /\ nextKey = 1
    /\ last = NoOp
    /\ cfg = [mode |-> "ASYNC", coordinated |-> FALSE, topo |-> "swap"]
    /\ phase = "EXTERNAL"
    /\ managed = NothingManaged
    /\ parallel_swappings = [n \in Nodes |-> {}]
    /\ active_channels = [n \in Nodes |-> EmptyFn]
    /\ pending_init_reservation = [n \in Nodes |-> {}]
    /\ fifo_reservation_req = [n \in Nodes |-> <<>>]
    /\ cchan = [l \in Links |-> <<>>]
    /\ events = {}
    /\ urgent = <<>>
    /\ fib = [n \in Nodes |-> [p \in PathIds |-> "no"]]
    /\ raised = ""
    /\ qchannel_paths_map = [n \in Nodes |-> EmptyFn]
    /\ etg_count = [n \in Nodes |-> 0]
    /\ decoh_count = [n \in Nodes |-> 0]
    /\ step = [op |-> "init", node |-> "", trans |-> {}, out |-> <<>>]

NextSwap ==
    \/ \E a, b, c \in EprNames :
          /\ Cardinality({a, b, c}) = 3
          /\ SwappingSucceeded(a, b, c)
    \/ \E a, b, c \in EprNames :
          /\ Cardinality({a, b, c}) = 3
          /\ SuParallelSucceeded(c, a, b)

SpecSwap == InitSwap /\ [][NextSwap]_vars

\* ------------------------------------------- memory specification (one node)
\* (path_id, active) of the slots as the tests prepare them: assign(qc) alone, or
\* allocate(path_id) and .active = key on the first slot or on every slot
Layouts(cap) ==
    { [a \in 0 .. cap - 1 |-> <<NoPath, NoKey>>],
      [a \in 0 .. cap - 1 |-> IF a = 0 THEN <<1, 1>> ELSE <<NoPath, NoKey>>],
      [a \in 0 .. cap - 1 |-> <<1, 1 + (a % 2)>>] }

\* the link layer and the forwarder are idle
LinkLayerIdle ==
    /\ cfg = [mode |-> "ASYNC", coordinated |-> FALSE, topo |-> "memory"]
    /\ phase = "EXTERNAL"
    /\ managed = NothingManaged
    /\ parallel_swappings = [n \in Nodes |-> {}]
    /\ active_channels = [n \in Nodes |-> EmptyFn]
    /\ pending_init_reservation = [n \in Nodes |-> {}]
    /\ fifo_reservation_req = [n \in Nodes |-> <<>>]
    /\ cchan = [l \in Links |-> <<>>]
    /\ events = {}
    /\ urgent = <<>>
    /\ fib = [n \in Nodes |-> [p \in PathIds |-> "no"]]
    /\ raised = ""
    /\ eprs = EmptyFn
    /\ qchannel_paths_map = [n \in Nodes |-> EmptyFn]
    /\ etg_count = [n \in Nodes |-> 0]
    /\ decoh_count = [n \in Nodes |-> 0]
    /\ step = [op |-> "init", node |-> "", trans |-> {}, out |-> <<>>]

InitMem ==
    /\ \E cap \in 1 .. MaxCap : \E kind \in Layouts(cap) :
          memory = [n \in Nodes |->
                      IF n = MemNode
                      THEN [storage |-> [a \in 0 .. cap - 1 |->
                                           [RawQubit("qc", kind[a][1]) EXCEPT !.active = kind[a][2]]],
                            usage |-> 0]
                      ELSE NewMemory(0)]
    /\ decohQ = [n \in Nodes |-> {}]
    /\ nextKey = 1
    /\ last = NoOp
    /\ LinkLayerIdle

Mem == memory[MemNode]

NextMem ==
    \/ \E pid \in {NoPath, 1}, key \in {NoKey, 1, 2} : MWrite(pid, key)
    \/ \E v \in 1 .. MaxNames, must \in BOOLEAN : MRead(TRUE, v, must)
    \/ \E v \in 0 .. Capacity(Mem), must \in BOOLEAN : MRead(FALSE, v, must)
    \/ \E v \in 1 .. MaxNames, must \in BOOLEAN : MGet(TRUE, v, must)
    \/ \E v \in 0 .. Capacity(Mem), must \in BOOLEAN : MGet(FALSE, v, must)
    \/ MClear
    \/ \E ev \in decohQ[MemNode] : MDecohere(ev)

SpecMem == InitMem /\ [][NextMem]_vars

\* allocation and release of slots, with writes in between
MAllocate(pid) ==
    LET r == MemAllocate(memory[MemNode], pid)
    IN  /\ memory' = [memory EXCEPT ![MemNode] = r.m]
        /\ last' = [NoOp EXCEPT !.op = "allocate", !.pid = pid, !.addr = r.addr,
                                !.nw = last.nw]
        /\ UNCHANGED <<decohQ, nextKey>>
        /\ UNCHANGED llvars

MDeallocate(addr) ==
    LET r == MemDeallocate(memory[MemNode], addr)
    IN  /\ addr \in DOMAIN memory[MemNode].storage
              => memory[MemNode].storage[addr].data = NoData
        /\ memory' = [memory EXCEPT ![MemNode] = r.m]
        /\ last' = [NoOp EXCEPT !.op = "deallocate", !.v = addr, !.err = r.err,
                                !.nw = last.nw]
        /\ UNCHANGED <<decohQ, nextKey>>
        /\ UNCHANGED llvars

\* addresses handed to deallocate: every slot, and three outside [0, capacity)
Addresses == (0 - 1) .. Capacity(Mem) \cup {999}

NextAlloc ==
    \/ \E pid \in PathIds : MAllocate(pid)
    \/ \E addr \in Addresses : MDeallocate(addr)
    \/ \E pid \in {NoPath, 1}, key \in {NoKey, 1, 2} : MWrite(pid, key)

SpecAlloc == InitMem /\ [][NextAlloc]_vars

\* C1: after Capacity successful writes into an empty memory is_full() is true, and the
\* next write returns None and leaves the slots and the occupancy count unchanged.
C1_FullAfterCapacityWrites ==
    /\ [](last.nw = Capacity(Mem) => IsFull(Mem))
    /\ [][(last.nw = Capacity(Mem) /\ last'.op = "write")
            => (last'.addr = NoAddr /\ memory' = memory)]_vars

C1_Witness ==
    /\ last.op = "write" /\ last.addr = NoAddr
    /\ last.nw = Capacity(Mem) /\ Capacity(Mem) = MaxCap

\* C2: a destructive read of the entry just written, by its name or by its address,
\* returns exactly that content from that slot and lowers the occupancy by one; reading
\* the same name or address again with must=True raises not-found.
C2_WriteReadRoundTrip ==
    /\ [][(/\ last.op = "write" /\ last.addr # NoAddr
           /\ last'.op = "read"
           /\ last'.v = (IF last'.byName THEN last.name ELSE last.addr))
            => (/\ last'.data = last.name
                /\ last'.addr = last.addr
                /\ last'.err = ""
                /\ memory'[MemNode].usage = Mem.usage - 1)]_vars
    /\ [][(/\ last.op = "read" /\ last.addr # NoAddr
           /\ last'.op = "read" /\ last'.must
           /\ last'.v = (IF last'.byName THEN last.data ELSE last.addr))
            => (last'.err = "NotFound" /\ last'.addr = NoAddr /\ memory' = memory)]_vars

C2_Witness ==
    /\ last.op = "read" /\ last.must /\ last.err = "NotFound" /\ last.byName
    /\ Mem.usage > 0

\* C3: write(content, path_id, key) with both constraints given stores the content in the
\* first free slot whose path_id and key both equal the given ones and returns it; when no
\* such slot exists (other key, or occupied) it returns None and stores nothing.
C3_WriteMatchesPathAndKey ==
    [][(last'.op = "write" /\ last'.pid # NoPath /\ last'.key # NoKey)
        => LET ok == {a \in DOMAIN Mem.storage :
                        /\ Mem.storage[a].data = NoData
                        /\ Mem.storage[a].path_id = last'.pid
                        /\ Mem.storage[a].active = last'.key}
           IN  IF ok = {}
               THEN last'.addr = NoAddr /\ memory' = memory
               ELSE /\ last'.addr \in ok
                    /\ memory'[MemNode].storage[last'.addr].data = last'.name
                    /\ \A a \in DOMAIN Mem.storage \ {last'.addr} :
                          memory'[MemNode].storage[a] = Mem.storage[a]]_vars

\* a write with path 1 and key 2 was refused although a free slot of path 1 (key 1) exists
C3_Witness ==
    /\ last.op = "write" /\ last.pid = 1 /\ last.key = 2 /\ last.addr = NoAddr
    /\ \E a \in DOMAIN Mem.storage :
          /\ Mem.storage[a].data = NoData
          /\ Mem.storage[a].path_id = 1 /\ Mem.storage[a].active = 1
    /\ ~IsFull(Mem)

\* C4: a decoherence event that fires frees its slot (content gone, state RELEASE) only if
\* the slot still holds the content written when it was scheduled; otherwise nothing changes.
C4_DecoherenceOnlyFreesOriginal ==
    [][last'.op = "decohere"
        => IF Mem.storage[last'.v].data = last'.name
           THEN /\ memory'[MemNode].storage[last'.v].data = NoData
                /\ memory'[MemNode].storage[last'.v].state = "RELEASE"
                /\ memory'[MemNode].usage = Mem.usage - 1
           ELSE memory' = memory]_vars

\* the event fired on a slot that had been read out and rewritten: the new content stays
C4_Witness ==
    /\ last.op = "decohere" /\ last.addr = NoAddr
    /\ Mem.storage[last.v].data # NoData
    /\ Mem.storage[last.v].state = "RAW"

\* ------------------------------------------------- claims on the link layer
\* a QubitReleasedEvent or QubitDecoheredEvent is about to be handled at node n
ReleaseAt(n) ==
    /\ raised = "" /\ urgent # <<>>
    /\ Head(urgent).type \in {"released", "decohered"}
    /\ Head(urgent).node = n

\* C5: handling a release (or decoherence) event for a qubit that is already RAW with no
\* reservation key leaves pending_init_reservation and the FIFO request queue unchanged
\* and sends no reservation message.
C5_ReleaseOfRawQubitIsNoOp ==
    [][\A n \in Nodes :
          (/\ ReleaseAt(n)
           /\ memory[n].storage[Head(urgent).addr].state = "RAW"
           /\ memory[n].storage[Head(urgent).addr].active = NoKey)
          => /\ pending_init_reservation' = pending_init_reservation
             /\ fifo_reservation_req' = fifo_reservation_req
             /\ cchan' = cchan]_vars

\* the release event of a RAW qubit made the responder accept the head of its queue
C5_Witness ==
    /\ step.op = "handle_decoh_rel"
    /\ step.trans = {<<"RAW", "RAW">>, <<"RAW", "ACTIVE">>, <<"ACTIVE", "RESERVED">>}
    /\ fifo_reservation_req[step.node] = <<>>

\* C6: swapping_succeeded and su_parallel_succeeded give the merged pair exactly the
\* intersection of the two inputs' tmp_path_ids; when the intersection is empty an exception
\* is raised and the merged pair's candidate set is not assigned (never an empty set).
C6_MergedCandidatesAreIntersection ==
    [][last'.op \in {"swapping_succeeded", "su_parallel_succeeded"}
        => LET ids0 == eprs[last'.epr0].tmp_path_ids
               ids1 == eprs[last'.epr1].tmp_path_ids
           IN  IF ids0 # NoIds /\ ids1 # NoIds /\ ids0 \cap ids1 # {}
               THEN /\ raised' = ""
                    /\ eprs'[last'.target].tmp_path_ids = ids0 \cap ids1
                    /\ \A e \in EprNames \ {last'.target} : eprs'[e] = eprs[e]
               ELSE /\ raised' # ""
                    /\ eprs' = eprs]_vars

\* two EPRs with disjoint, non-empty candidate sets were merged: the exception was raised
C6_Witness ==
    /\ last.op \in {"swapping_succeeded", "su_parallel_succeeded"}
    /\ raised = "Cannot select path ID"
    /\ eprs[last.epr0].tmp_path_ids = {1}
    /\ eprs[last.epr1].tmp_path_ids = {2}

\* C7: with coordinated_decisions=False the second endpoint of an elementary EPR always
\* computes the candidate set the first endpoint stored in the EPR: the assertion
\* epr.tmp_path_ids == possible_path_ids never fails, however path installation and
\* removal interleave with the entanglement notifications.
C7_ElementaryEprSymmetry ==
    cfg.coordinated = FALSE => raised # "assert tmp_path_ids == possible_path_ids"

\* the assertion failed at a node whose registrations differ from those of the EPR's
\* other endpoint
C7_Witness ==
    /\ raised = "assert tmp_path_ids == possible_path_ids"
    /\ step.op = "qubit_is_entangled"
    /\ \E m \in Nodes \ {step.node} :
          LET ch == QCh(step.node, m)
          IN  /\ ch # NoCh
              /\ Range(PossiblePathIds(qchannel_paths_map[step.node], ch))
                    # Range(PossiblePathIds(qchannel_paths_map[m], ch))

\* the state changes of the claimed machine, with ELIGIBLE before PURIF
ClaimedTransitions ==
    {<<"RAW", "ACTIVE">>, <<"ACTIVE", "RESERVED">>, <<"RESERVED", "ENTANGLED0">>,
     <<"ENTANGLED0", "ELIGIBLE">>, <<"ELIGIBLE", "PURIF">>, <<"RELEASE", "RAW">>}
        \cup {<<s, "RELEASE">> :
                s \in {"RAW", "ACTIVE", "RESERVED", "ENTANGLED0", "ELIGIBLE", "PURIF"}}

\* the same with PURIF before ELIGIBLE
ActualTransitions ==
    {<<"RAW", "ACTIVE">>, <<"ACTIVE", "RESERVED">>, <<"RESERVED", "ENTANGLED0">>,
     <<"ENTANGLED0", "PURIF">>, <<"PURIF", "ELIGIBLE">>, <<"RELEASE", "RAW">>}
        \cup {<<s, "RELEASE">> :
                s \in {"RAW", "ACTIVE", "RESERVED", "ENTANGLED0", "ELIGIBLE", "PURIF"}}

C9_ReserveRequestHandling ==
    [][\A l \in Links :
          (/\ step'.op = "handle_reserve_req"
           /\ cchan[l] # <<>>
           /\ cchan'[l] = Tail(cchan[l]))
          => LET m == l[1]
                 n == l[2]
                 msg == Head(cchan[l])
                 free == {a \in DOMAIN memory[n].storage :
                            /\ memory[n].storage[a].data = NoData
                            /\ memory[n].storage[a].active = NoKey
                            /\ memory[n].storage[a].qchannel = QCh(n, m)
                            /\ memory[n].storage[a].path_id = msg.path_id}
                 ok == [dst |-> m, cmd |-> "RESERVE_QUBIT_OK", path_id |-> msg.path_id,
                        key |-> msg.key]
             IN  /\ msg.cmd = "RESERVE_QUBIT"
                 /\ step'.node = n
                 /\ IF free # {}
                    THEN /\ \E a \in free :
                               /\ memory'[n].storage[a] =
                                     [memory[n].storage[a] EXCEPT !.state = "RESERVED",
                                                                  !.active = msg.key]
                               /\ \A b \in DOMAIN memory[n].storage \ {a} :
                                     memory'[n].storage[b] = memory[n].storage[b]
                         /\ step'.out = <<ok>>
                         /\ cchan'[<<n, m>>] = Append(cchan[<<n, m>>], ok)
                         /\ fifo_reservation_req' = fifo_reservation_req
                    ELSE /\ memory' = memory
                         /\ step'.out = <<>>
                         /\ cchan'[<<n, m>>] = cchan[<<n, m>>]
                         /\ fifo_reservation_req'[n] =
                               Append(fifo_reservation_req[n],
                                      [key |-> msg.key, path_id |-> msg.path_id,
                                       from_node |-> m, qchannel |-> QCh(n, m)])]_vars

\* a request found the only qubit of its channel taken and was queued, while a qubit of
\* another channel was free at the responder
C9_Witness ==
    /\ step.op = "handle_reserve_req"
    /\ step.out = <<>>
    /\ fifo_reservation_req[step.node] # <<>>
    /\ \E a \in DOMAIN memory[step.node].storage :
          /\ memory[step.node].storage[a].data = NoData
          /\ memory[step.node].storage[a].active = NoKey

\* C10: a RESERVE_QUBIT that has just arrived is never accepted (its qubit reserved and
\* RESERVE_QUBIT_OK sent) while a request that arrived earlier at the same responder is
\* still waiting in the queue; an accepted arrival leaves the queue as it was.
C10_FifoOrder ==
    ~(/\ step.op = "handle_reserve_req"
      /\ Len(step.out) = 1
      /\ step.out[1].cmd = "RESERVE_QUBIT_OK"
      /\ fifo_reservation_req[step.node] # <<>>)

\* an arrival from a node was accepted while an earlier request of that node, for the
\* same channel and path, was waiting in the queue
C10_Witness ==
    /\ step.op = "handle_reserve_req"
    /\ Len(step.out) = 1
    /\ step.out[1].cmd = "RESERVE_QUBIT_OK"
    /\ \E i \in 1 .. Len(fifo_reservation_req[step.node]) :
          LET req == fifo_reservation_req[step.node][i]
          IN  /\ req.from_node = step.out[1].dst
              /\ req.path_id = step.out[1].path_id

\* the keys of the reservations node n has requested and not yet seen answered: in a
\* RESERVE_QUBIT on its way, in a responder's queue, or in a RESERVE_QUBIT_OK on its way back
Outstanding(n) ==
    UNION {{cchan[l][i].key : i \in {j \in 1 .. Len(cchan[l]) :
                                        cchan[l][j].cmd = "RESERVE_QUBIT"}} :
              l \in {x \in Links : x[1] = n}}
    \cup UNION {{fifo_reservation_req[m][i].key :
                    i \in {j \in 1 .. Len(fifo_reservation_req[m]) :
                              fifo_reservation_req[m][j].from_node = n}} : m \in Nodes}
    \cup UNION {{cchan[l][i].key : i \in {j \in 1 .. Len(cchan[l]) :
                                             cchan[l][j].cmd = "RESERVE_QUBIT_OK"}} :
                   l \in {x \in Links : x[2] = n}}

PendingKeys(n) == {r.key : r \in pending_init_reservation[n]}

\* C11: the initiator holds a pending-reservation record for key k exactly from the sending
\* of RESERVE_QUBIT(k) until RESERVE_QUBIT_OK(k) is received; receiving it removes that one
\* record, so no key is consumed twice and a later RESERVE_QUBIT_OK(k) finds no record.
C11_PendingRecordLifetime ==
    /\ [](\A n \in Nodes :
            /\ PendingKeys(n) = Outstanding(n)
            /\ Cardinality(pending_init_reservation[n]) = Cardinality(PendingKeys(n)))
    /\ [][\A l \in Links :
            (/\ step'.op = "handle_reserve_res"
             /\ cchan[l] # <<>>
             /\ cchan'[l] = Tail(cchan[l]))
            => /\ Head(cchan[l]).key \in PendingKeys(l[2])
               /\ PendingKeys(l[2])' = PendingKeys(l[2]) \ {Head(cchan[l]).key}
               /\ raised' # "handle_reserve_res: KeyError"]_vars

\* an answer has been consumed, its record is gone, and another initiator still waits
C11_Witness ==
    /\ step.op = "handle_reserve_res"
    /\ raised = ""
    /\ \E e \in events : e.node = step.node /\ e.epr \notin PendingKeys(step.node)
    /\ \E n \in Nodes \ {step.node} : PendingKeys(n) # {}

\* the slots of node n whose qubit is reserved under key k
SlotsOfKey(n, k) == {a \in DOMAIN memory[n].storage : memory[n].storage[a].active = k}

Delivered(k) == {n \in {eprs[k].src, eprs[k].dst} : [node |-> n, epr |-> k] \notin events}

TotalEtgCount == etg_count["A"] + etg_count["B"] + etg_count["C"]

\* C14 as stated: each elementary EPR is counted once, by the endpoint that processes its
\* notification first.
C14_CountedByFirstEndpoint ==
    [][\A ev \in events :
         (step'.op = "handle_success_entangle" /\ ev \notin events')
         => /\ etg_count'[ev.node] =
                  etg_count[ev.node] + (IF Delivered(ev.epr) = {} THEN 1 ELSE 0)
            /\ \A m \in Nodes \ {ev.node} : etg_count'[m] = etg_count[m]]_vars

\* C14: each elementary EPR is counted exactly once over its two endpoints, by its
\* initiator (epr.src), whichever endpoint processes its notification first.
C14_CountedOnceByInitiator ==
    /\ [](\A n \in Nodes :
            etg_count[n] = Cardinality({k \in DOMAIN eprs : eprs[k].src = n
                                                            /\ n \in Delivered(k)}))
    /\ [](TotalEtgCount = Cardinality({k \in DOMAIN eprs : eprs[k].src \in Delivered(k)}))
    /\ [][\A ev \in events :
            (step'.op = "handle_success_entangle" /\ ev \notin events')
            => /\ etg_count'[ev.node] =
                     etg_count[ev.node] + (IF eprs[ev.epr].src = ev.node THEN 1 ELSE 0)
               /\ \A m \in Nodes \ {ev.node} : etg_count'[m] = etg_count[m]]_vars
    /\ [][etg_count' # etg_count => step'.op = "handle_success_entangle"]_vars

\* the responder has processed its notification first and nothing has been counted yet
C14_Witness ==
    /\ step.op = "handle_success_entangle"
    /\ \E k \in DOMAIN eprs :
          /\ step.node = eprs[k].dst
          /\ Delivered(k) = {eprs[k].dst}
          /\ DOMAIN eprs = {k}
          /\ TotalEtgCount = 0

\* every reservation key some node, queue, message or EPR still refers to
KeysInUse ==
    UNION {PendingKeys(n) : n \in Nodes}
    \cup UNION {{memory[n].storage[a].active : a \in DOMAIN memory[n].storage} : n \in Nodes}
    \cup UNION {{cchan[l][i].key : i \in 1 .. Len(cchan[l])} : l \in Links}
    \cup UNION {{fifo_reservation_req[n][i].key : i \in 1 .. Len(fifo_reservation_req[n])} :
                   n \in Nodes}
    \cup DOMAIN eprs

\* the qubit of the release or decoherence event about to be handled is on the initiator
\* side of an active channel
InitiatorEvent ==
    /\ raised = "" /\ urgent # <<>>
    /\ Head(urgent).type \in {"released", "decohered"}
    /\ LET q == memory[Head(urgent).node].storage[Head(urgent).addr]
       IN  <<q.qchannel, q.path_id>> \in DOMAIN active_channels[Head(urgent).node]

\* C15: in asynchronous mode, the handler of a decoherence or release of an initiator-side
\* qubit resets the qubit to RAW and, in the same step, starts a fresh reservation for the
\* same qubit toward the same neighbor under a new key: qubit ACTIVE, a new pending record,
\* one RESERVE_QUBIT sent.
C15_AsyncRestart ==
    [][(InitiatorEvent /\ cfg.mode = "ASYNC" /\ step'.op = "handle_decoh_rel")
       => LET n == Head(urgent).node
              a == Head(urgent).addr
              q == memory[n].storage[a]
              nb == active_channels[n][<<q.qchannel, q.path_id>>].neighbor
              k == memory'[n].storage[a].active
          IN  /\ raised' = ""
              /\ step'.trans = {<<q.state, "RAW">>, <<"RAW", "ACTIVE">>}
              /\ k # NoKey /\ k \notin KeysInUse
              /\ memory'[n] = [memory[n] EXCEPT ![ "storage"][a] =
                                  [q EXCEPT !.state = "ACTIVE", !.active = k]]
              /\ pending_init_reservation'[n] = pending_init_reservation[n]
                    \cup {[key |-> k, qchannel |-> q.qchannel, next_hop |-> nb, addr |-> a]}
              /\ Cardinality(pending_init_reservation'[n]) =
                    Cardinality(pending_init_reservation[n]) + 1
              /\ step'.out = <<Msg(nb, "RESERVE_QUBIT", q.path_id, k)>>
              /\ cchan' = [cchan EXCEPT ![<<n, nb>>] =
                              Append(@, Msg(nb, "RESERVE_QUBIT", q.path_id, k))]
              /\ fifo_reservation_req' = fifo_reservation_req]_vars

\* a decohered initiator-side qubit has been handed to a new reservation
C15_Witness ==
    /\ step.op = "handle_decoh_rel"
    /\ cfg.mode = "ASYNC"
    /\ decoh_count[step.node] > 0
    /\ <<"RAW", "ACTIVE">> \in step.trans
    /\ Len(step.out) = 1
    /\ step.out[1].cmd = "RESERVE_QUBIT"
    /\ step.out[1].key > 1

\* the qubit of the release or decoherence event about to be handled is on the responder
\* side, and requests are queued at its node
ResponderEvent ==
    /\ raised = "" /\ urgent # <<>>
    /\ Head(urgent).type \in {"released", "decohered"}
    /\ LET q == memory[Head(urgent).node].storage[Head(urgent).addr]
       IN  /\ q.qchannel # NoCh
           /\ <<q.qchannel, q.path_id>> \notin DOMAIN active_channels[Head(urgent).node]
    /\ fifo_reservation_req[Head(urgent).node] # <<>>

\* C17: when a responder-side qubit is decohered or released and requests are queued, the
\* oldest one is tried: accepted, it leaves the queue; not acceptable, the queue stays as
\* it is. No other queued request is processed by the event.
C17_ResponderTriesOldest ==
    [][(ResponderEvent /\ step'.op = "handle_decoh_rel")
       => LET n == Head(urgent).node
              a == Head(urgent).addr
              req == Head(fifo_reservation_req[n])
              free == {b \in DOMAIN memory[n].storage :
                          /\ memory[n].storage[b].qchannel = req.qchannel
                          /\ memory[n].storage[b].path_id = req.path_id
                          /\ memory[n].storage[b].data = NoData
                          /\ (b = a \/ memory[n].storage[b].active = NoKey)}
          IN  /\ raised' = ""
              /\ IF free # {}
                 THEN /\ fifo_reservation_req'[n] = Tail(fifo_reservation_req[n])
                      /\ step'.out = <<Msg(req.from_node, "RESERVE_QUBIT_OK", req.path_id,
                                           req.key)>>
                      /\ \E b \in free : /\ memory'[n].storage[b].active = req.key
                                         /\ memory'[n].storage[b].state = "RESERVED"
                 ELSE /\ fifo_reservation_req'[n] = fifo_reservation_req[n]
                      /\ step'.out = <<>>
                      /\ \A b \in DOMAIN memory[n].storage \ {a} :
                            memory'[n].storage[b] = memory[n].storage[b]
                      /\ memory'[n].storage[a].state = "RAW"
              /\ Cardinality({b \in DOMAIN memory[n].storage :
                                 memory'[n].storage[b].state = "RESERVED"
                                 /\ memory[n].storage[b].state # "RESERVED"}) <= 1]_vars

\* a release has served the head of a queue that still holds a younger request
C17_Witness ==
    /\ step.op = "handle_decoh_rel"
    /\ Len(step.out) = 1
    /\ step.out[1].cmd = "RESERVE_QUBIT_OK"
    /\ fifo_reservation_req[step.node] # <<>>

\* ------------------------------------------------- choosing a swap partner
\* faulty variant: the qubit's own channel is not excluded
MatchedChannelsWithOwn(m, ch, ids) ==
    {c \in DOMAIN m : HasIntersectTmpPathIds(ids, Range(m[c]))}

\* find_swap_candidate: channels other than the qubit's with a path among the candidates
MatchedChannels(m, ch, ids) ==
    {c \in DOMAIN m : c # ch /\ HasIntersectTmpPathIds(ids, Range(m[c]))}

\* memory.find(lambda q, v: ..., has_epr=True) for the qubit at address a with its EPR's
\* candidate set ids
SwapCandidates(mem, es, m, a, ids) ==
    {b \in DOMAIN mem.storage :
        /\ mem.storage[b].data # NoData
        /\ mem.storage[b].state = "ELIGIBLE"
        /\ mem.storage[b].qchannel # NoCh
        /\ mem.storage[b].qchannel \in MatchedChannels(m, mem.storage[a].qchannel, ids)
        /\ HasIntersectTmpPathIds(ids, es[mem.storage[b].data].tmp_path_ids)}

\* select_swap_qubit: the first candidate if fn is None, else whatever fn returns from
\* the list; None if there is no candidate
SelectSwapQubit(fn, cands) ==
    IF cands = {} THEN {NoAddr}
    ELSE IF fn = "None" THEN {Min(cands)}
    ELSE cands

\* faulty variant: only the qubit's own EPR is committed to the chosen path
CommitChoiceOwnOnly(es, epr, epr1, chosen_path_id, coordinated) ==
    IF coordinated
    THEN [es EXCEPT ![epr.name].tmp_path_ids = {chosen_path_id}]
    ELSE es

\* if self.coordinated_decisions: epr.tmp_path_ids = epr1.tmp_path_ids =
\* frozenset([chosen_path_id])
CommitChoice(es, epr, epr1, chosen_path_id, coordinated) ==
    IF coordinated
    THEN [es EXCEPT ![epr.name].tmp_path_ids = {chosen_path_id},
                    ![epr1.name].tmp_path_ids = {chosen_path_id}]
    ELSE es

\* find_swap_candidate(qubit, epr, fib_entry) for the qubit at address a: every outcome
\* the selection function and random.choice allow, as [found, path_id, eprs, raised]
FindSwapResults(mem, es, m, a, fn, coordinated) ==
    LET q == mem.storage[a]
        epr == es[q.data]
        cands == SwapCandidates(mem, es, m, a, epr.tmp_path_ids)
        none == [found |-> NoAddr, path_id |-> NoPath, eprs |-> es, raised |-> ""]
    IN  IF q.qchannel = NoCh
        THEN {[none EXCEPT !.raised = "assert qubit.qchannel is not None"]}
        ELSE UNION {
               IF b = NoAddr THEN {none}
               ELSE LET epr1 == es[mem.storage[b].data]
                        r == IntersectTmpPathIds(epr.tmp_path_ids, epr1.tmp_path_ids)
                    IN  IF r.raised # "" THEN {[none EXCEPT !.raised = r.raised]}
                        ELSE {[found |-> b, path_id |-> chosen_path_id,
                               eprs |-> CommitChoice(es, epr, epr1, chosen_path_id,
                                                     coordinated),
                               raised |-> ""] : chosen_path_id \in r.ids}
               : b \in SelectSwapQubit(fn, cands)}

\* one call of find_swap_candidate at node n
FindSwapCandidate(n, a, fn) ==
    /\ raised = ""
    /\ a \in DOMAIN memory[n].storage
    /\ memory[n].storage[a].state = "ELIGIBLE"
    /\ memory[n].storage[a].data # NoData
    /\ \E r \in FindSwapResults(memory[n], eprs, qchannel_paths_map[n], a, fn,
                                cfg.coordinated) :
          /\ eprs' = r.eprs
          /\ raised' = r.raised
          /\ last' = [op |-> "find_swap_candidate", node |-> n, qubit |-> a,
                      found |-> r.found, path_id |-> r.path_id]
    /\ step' = [op |-> "find_swap_candidate", node |-> n, trans |-> {}, out |-> <<>>]
    /\ UNCHANGED <<memory, decohQ, nextKey, cfg, phase, managed, parallel_swappings,
                   active_channels, pending_init_reservation, fifo_reservation_req, cchan,
                   events, urgent, fib, qchannel_paths_map, etg_count, decoh_count>>

\* node B holds MaxCap + 1 qubits on its two channels, each RAW and empty or holding an
\* EPR with a candidate set; any registration of paths on the channels
SwapNode == "B"

SlotKinds ==
    [qchannel : {"AB", "BC"}, state : {"RAW"}, ids : {NoIds}]
    \cup [qchannel : {"AB", "BC"}, state : {"ENTANGLED0", "ELIGIBLE"},
          ids : SUBSET PathIds \ {{}}]

PathLists == {<<>>, <<1>>, <<2>>, <<1, 2>>}

InitCandidate ==
    /\ \E kinds \in [0 .. MaxCap -> SlotKinds] :
          /\ kinds[0].state = "ELIGIBLE" /\ kinds[0].qchannel = "AB"
          /\ memory = [n \in Nodes |->
                         IF n = SwapNode
                         THEN [storage |->
                                  [a \in 0 .. MaxCap |->
                                      [state |-> kinds[a].state,
                                       qchannel |-> kinds[a].qchannel,
                                       path_id |-> NoPath, active |-> NoKey,
                                       data |-> IF kinds[a].state = "RAW" THEN NoData
                                                ELSE a + 1]],
                               usage |-> Cardinality({a \in 0 .. MaxCap :
                                                        kinds[a].state # "RAW"})]
                         ELSE NewMemory(0)]
          /\ eprs = [e \in {a + 1 : a \in {x \in 0 .. MaxCap : kinds[x].state # "RAW"}} |->
                        [name |-> e, src |-> "A", dst |-> "B", key |-> NoKey,
                         tmp_path_ids |-> kinds[e - 1].ids]]
    /\ \E ab, bc \in PathLists :
          qchannel_paths_map =
             [n \in Nodes |->
                 IF n # SwapNode THEN EmptyFn
                 ELSE [c \in {x \in {"AB", "BC"} : (IF x = "AB" THEN ab ELSE bc) # <<>>} |->
                          IF c = "AB" THEN ab ELSE bc]]
    /\ \E coordinated \in BOOLEAN :
          cfg = [mode |-> "ASYNC", coordinated |-> coordinated, topo |-> "candidate"]
    /\ phase = "EXTERNAL"
    /\ managed = NothingManaged
    /\ parallel_swappings = [n \in Nodes |-> {}]
    /\ decohQ = [n \in Nodes |-> {}]
    /\ nextKey = 1
    /\ last = NoOp
    /\ active_channels = [n \in Nodes |-> EmptyFn]
    /\ pending_init_reservation = [n \in Nodes |-> {}]
    /\ fifo_reservation_req = [n \in Nodes |-> <<>>]
    /\ cchan = [l \in Links |-> <<>>]
    /\ events = {}
    /\ urgent = <<>>
    /\ fib = [n \in Nodes |-> [p \in PathIds |-> "no"]]
    /\ raised = ""
    /\ etg_count = [n \in Nodes |-> 0]
    /\ decoh_count = [n \in Nodes |-> 0]
    /\ step = [op |-> "init", node |-> "", trans |-> {}, out |-> <<>>]

NextCandidate ==
    \E a \in 0 .. MaxCap, fn \in {"None", "select_swap_qubit_random"} :
        FindSwapCandidate(SwapNode, a, fn)

SpecCandidate == InitCandidate /\ [][NextCandidate]_vars

\* ------------------------------------------------------- parallel swaps
\* faulty variant: a path outside the candidate set is not noticed
SuParallelNeverConflicts(ids, su_path_id, coordinated) ==
    IF ids = NoIds
    THEN [conflict |-> FALSE, raised |-> "assert my_new_epr.tmp_path_ids is not None"]
    ELSE [conflict |-> FALSE, raised |-> ""]

\* su_parallel_has_conflict(my_new_epr, su_path_id): the value returned, or the assertion
\* that failed
SuParallelHasConflict(ids, su_path_id, coordinated) ==
    IF ids = NoIds
    THEN [conflict |-> FALSE, raised |-> "assert my_new_epr.tmp_path_ids is not None"]
    ELSE IF su_path_id \notin ids
    THEN IF coordinated
         THEN [conflict |-> TRUE, raised |-> "assert not self.coordinated_decisions"]
         ELSE [conflict |-> TRUE, raised |-> ""]
    ELSE [conflict |-> FALSE, raised |-> ""]

\* B and C hold the two ends of EPR 2 and one more EPR each (1 toward A, 3 toward the
\* node beyond C); both are free to swap, in either order, before the other's SWAP_UPDATE
\* arrives
SwapNodes == {"B", "C"}

Remote(e, n) == IF e.src = n THEN e.dst ELSE e.src

SwapUpdate(dst, path_id, epr, new_epr) ==
    [dst |-> dst, cmd |-> "SWAP_UPDATE", path_id |-> path_id, key |-> NoKey, epr |-> epr,
     new_epr |-> new_epr]

\* names of the EPRs created by swaps and merges: the initial ones are 1, 2 and 3
FreshEpr == 3 + nextKey

\* the forwarder of node n swaps the qubit at address a with the partner its mux finds:
\* both EPRs leave the memory, the new EPR gets its candidate set from swapping_succeeded,
\* and the far ends are told with SWAP_UPDATE carrying the chosen path_id
SwapAt(n, a, fn) ==
    /\ raised = ""
    /\ a \in DOMAIN memory[n].storage
    /\ memory[n].storage[a].state = "ELIGIBLE"
    /\ memory[n].storage[a].data # NoData
    /\ \E r \in FindSwapResults(memory[n], eprs, qchannel_paths_map[n], a, fn,
                                cfg.coordinated) :
          /\ r.found # NoAddr
          /\ LET e0 == memory[n].storage[a].data
                 e1 == memory[n].storage[r.found].data
                 m == IntersectTmpPathIds(r.eprs[e0].tmp_path_ids, r.eprs[e1].tmp_path_ids)
                 out == [e \in {e0, e1} |->
                            SwapUpdate(Remote(eprs[e], n), r.path_id, e, FreshEpr)]
             IN  /\ raised' = m.raised
                 /\ eprs' = IF m.raised # "" THEN r.eprs
                            ELSE (FreshEpr :> [name |-> FreshEpr,
                                               src |-> Remote(eprs[e0], n),
                                               dst |-> Remote(eprs[e1], n), key |-> NoKey,
                                               tmp_path_ids |-> m.ids]) @@ r.eprs
                 /\ memory' = [memory EXCEPT
                                 ![n].storage[a] = [@ EXCEPT !.data = NoData,
                                                             !.state = "RAW"],
                                 ![n].storage[r.found] = [@ EXCEPT !.data = NoData,
                                                                   !.state = "RAW"],
                                 ![n].usage = @ - 2]
                 /\ parallel_swappings' =
                       [parallel_swappings EXCEPT
                           ![n] = @ \cup {[shared |-> e0, other |-> e1, my_new |-> FreshEpr],
                                          [shared |-> e1, other |-> e0, my_new |-> FreshEpr]}]
                 /\ cchan' = [l \in Links |->
                                IF l[1] = n /\ l[2] \in SwapNodes
                                THEN cchan[l] \o
                                     (IF out[e0].dst = l[2] THEN <<out[e0]>> ELSE <<>>) \o
                                     (IF out[e1].dst = l[2] THEN <<out[e1]>> ELSE <<>>)
                                ELSE cchan[l]]
                 /\ last' = [op |-> "swap", node |-> n, path_id |-> r.path_id,
                             new_epr |-> FreshEpr]
    /\ nextKey' = nextKey + 1
    /\ step' = [op |-> "swap", node |-> n, trans |-> {<<"ELIGIBLE", "RAW">>}, out |-> <<>>]
    /\ UNCHANGED <<decohQ, cfg, phase, managed, active_channels, pending_init_reservation,
                   fifo_reservation_req, events, urgent, fib, qchannel_paths_map, etg_count,
                   decoh_count>>

\* SWAP_UPDATE arrives at l[2]: the EPR it names is still in memory (it is replaced by the
\* new one), or this node swapped it in the same instant (the mux is asked for a conflict,
\* and without one the two new EPRs are merged), or it is gone (nothing happens)
RecvSwapUpdate(l) ==
    /\ raised = ""
    /\ cchan[l] # <<>>
    /\ Head(cchan[l]).cmd = "SWAP_UPDATE"
    /\ LET msg == Head(cchan[l])
           n == l[2]
           held == {b \in DOMAIN memory[n].storage : memory[n].storage[b].data = msg.epr}
           recs == {r \in parallel_swappings[n] : r.shared = msg.epr}
       IN  IF held # {}
           THEN /\ memory' = [memory EXCEPT
                                ![n].storage[CHOOSE b \in held : TRUE].data = msg.new_epr]
                /\ last' = [op |-> "swap_update", node |-> n, path_id |-> msg.path_id,
                            new_epr |-> msg.new_epr]
                /\ UNCHANGED <<eprs, raised, parallel_swappings, nextKey>>
           ELSE IF recs = {}
           THEN /\ last' = [op |-> "swap_update_ignored", node |-> n,
                            path_id |-> msg.path_id, new_epr |-> msg.new_epr]
                /\ UNCHANGED <<memory, eprs, raised, parallel_swappings, nextKey>>
           ELSE LET rec == CHOOSE r \in recs : TRUE
                    ids == eprs[rec.my_new].tmp_path_ids
                    c == SuParallelHasConflict(ids, msg.path_id, cfg.coordinated)
                    m == IntersectTmpPathIds(eprs[msg.new_epr].tmp_path_ids,
                                             eprs[rec.other].tmp_path_ids)
                IN  /\ last' = [op |-> "su_parallel_has_conflict", node |-> n, ids |-> ids,
                                path_id |-> msg.path_id, conflict |-> c.conflict]
                    /\ parallel_swappings' = [parallel_swappings EXCEPT ![n] = @ \ {rec}]
                    /\ UNCHANGED memory
                    /\ IF c.raised # ""
                       THEN raised' = c.raised /\ UNCHANGED <<eprs, nextKey>>
                       ELSE IF c.conflict
                       THEN UNCHANGED <<eprs, raised, nextKey>>
                       ELSE /\ raised' = m.raised
                            /\ nextKey' = nextKey + 1
                            /\ eprs' = IF m.raised # "" THEN eprs
                                       ELSE (FreshEpr :>
                                                [name |-> FreshEpr,
                                                 src |-> eprs[rec.other].src,
                                                 dst |-> eprs[msg.new_epr].dst,
                                                 key |-> NoKey,
                                                 tmp_path_ids |-> m.ids]) @@ eprs
    /\ cchan' = Recv(l)
    /\ step' = [op |-> "recv_swap_update", node |-> l[2], trans |-> {}, out |-> <<>>]
    /\ UNCHANGED <<decohQ, cfg, phase, managed, active_channels, pending_init_reservation,
                   fifo_reservation_req, events, urgent, fib, qchannel_paths_map, etg_count,
                   decoh_count>>

ToSeq(ids) == IF ids = {1} THEN <<1>> ELSE IF ids = {2} THEN <<2>> ELSE <<1, 2>>

InitParallel ==
    /\ \E i1, i2, i3 \in SUBSET PathIds \ {{}} :
          /\ eprs = (1 :> [name |-> 1, src |-> "A", dst |-> "B", key |-> NoKey,
                           tmp_path_ids |-> i1])
                    @@ (2 :> [name |-> 2, src |-> "B", dst |-> "C", key |-> NoKey,
                              tmp_path_ids |-> i2])
                    @@ (3 :> [name |-> 3, src |-> "C", dst |-> "D", key |-> NoKey,
                              tmp_path_ids |-> i3])
          /\ qchannel_paths_map =
                [n \in Nodes |->
                    IF n = "B" THEN ("AB" :> ToSeq(i1)) @@ ("BC" :> ToSeq(i2))
                    ELSE IF n = "C" THEN ("BC" :> ToSeq(i2)) @@ ("CD" :> ToSeq(i3))
                    ELSE EmptyFn]
    /\ memory = [n \in Nodes |->
                   IF n \in SwapNodes
                   THEN [storage |->
                            [a \in 0 .. 1 |->
                                [state |-> "ELIGIBLE",
                                 qchannel |-> IF n = "B" THEN <<"AB", "BC">>[a + 1]
                                              ELSE <<"BC", "CD">>[a + 1],
                                 path_id |-> NoPath, active |-> NoKey,
                                 data |-> IF n = "B" THEN a + 1 ELSE a + 2]],
                         usage |-> 2]
                   ELSE NewMemory(0)]
    /\ \E coordinated \in BOOLEAN :
          cfg = [mode |-> "ASYNC", coordinated |-> coordinated, topo |-> "parallel"]
    /\ phase = "EXTERNAL"
    /\ managed = NothingManaged
    /\ parallel_swappings = [n \in Nodes |-> {}]
    /\ decohQ = [n \in Nodes |-> {}]
    /\ nextKey = 1
    /\ last = NoOp
    /\ active_channels = [n \in Nodes |-> EmptyFn]
    /\ pending_init_reservation = [n \in Nodes |-> {}]
    /\ fifo_reservation_req = [n \in Nodes |-> <<>>]
    /\ cchan = [l \in Links |-> <<>>]
    /\ events = {}
    /\ urgent = <<>>
    /\ fib = [n \in Nodes |-> [p \in PathIds |-> "no"]]
    /\ raised = ""
    /\ etg_count = [n \in Nodes |-> 0]
    /\ decoh_count = [n \in Nodes |-> 0]
    /\ step = [op |-> "init", node |-> "", trans |-> {}, out |-> <<>>]

NextParallel ==
    \/ \E n \in SwapNodes, a \in 0 .. 1, fn \in {"None", "select_swap_qubit_random"} :
          SwapAt(n, a, fn)
    \/ \E l \in Links : RecvSwapUpdate(l)

SpecParallel == InitParallel /\ [][NextParallel]_vars

\* --------------------------------------------------- synchronous timing
\* the link A - B in SYNC timing mode: phases alternate and both nodes get the signal of
\* each phase
Sync == [mode |-> "SYNC", coordinated |-> FALSE, topo |-> "sync"]

InitSync == InitNet(Sync)

\* the simulator handles events in time order: a notification whose time lies before the
\* end of the current phase is handled before the signal of the next phase
DueInPhase(ev) ==
    \/ last.op # "generate_entanglement"
    \/ last.key # ev.epr
    \/ (IF ev.node = eprs[ev.epr].src THEN last.times.t_notify_a
        ELSE last.times.t_notify_b) < last.times.t_end

PhaseSignal ==
    /\ Timed
    /\ cfg.mode = "SYNC"
    /\ phase = "EXTERNAL" => \A ev \in events : ~DueInPhase(ev)
    /\ phase' = IF phase = "EXTERNAL" THEN "INTERNAL" ELSE "EXTERNAL"
    /\ urgent' = <<Ev("phase", "A", NoAddr, ""), Ev("phase", "B", NoAddr, "")>>
    /\ step' = [op |-> "phase_signal", node |-> "", trans |-> {}, out |-> <<>>]
    /\ UNCHANGED <<memory, decohQ, nextKey, last, cfg, managed, parallel_swappings,
                   active_channels,
                   pending_init_reservation, fifo_reservation_req, cchan, events, fib,
                   raised, eprs, qchannel_paths_map, etg_count, decoh_count>>

NextSync ==
    \/ \E n \in Nodes, p \in PathIds : InstallPath(n, p)
    \/ HandleManageActiveChannels
    \/ PhaseSignal
    \/ HandleSyncPhase
    \/ \E l \in Links : HandleReserveReq(l)
    \/ \E l \in Links : HandleReserveRes(l)
    \/ \E ev \in events : HandleSuccessEntangle(ev)
    \/ QubitIsEntangled
    \/ \E n \in Nodes, a \in 0 .. 1 : FwRelease(n, a)
    \/ \E n \in Nodes : \E ev \in decohQ[n] : Decohere(n, ev)
    \/ HandleDecohRel

SpecSync == InitSync /\ [][NextSync]_vars

\* ------------------------------------------------------- stopped channels
\* paths are installed and removed on the chain in ASYNC mode and on the link in SYNC mode
InitStop == InitNet(Chain) \/ InitNet(Sync)

NextStop ==
    \/ \E n \in Nodes, p \in PathIds : InstallPath(n, p)
    \/ \E n \in Nodes, p \in PathIds : UninstallPath(n, p)
    \/ HandleManageActiveChannels
    \/ PhaseSignal
    \/ HandleSyncPhase
    \/ \E l \in Links : HandleReserveReq(l)
    \/ \E l \in Links : HandleReserveRes(l)
    \/ \E ev \in events : HandleSuccessEntangle(ev)
    \/ QubitIsEntangled
    \/ \E n \in Nodes, a \in 0 .. 1 : FwRelease(n, a)
    \/ \E n \in Nodes : \E ev \in decohQ[n] : Decohere(n, ev)
    \/ HandleDecohRel

SpecStop == InitStop /\ [][NextStop]_vars

\* ------------------------------------------- active-channel reference counting
\* the forwarder of node A posts start and stop events for the keys of ChannelKeys in any
\* order in which no key has more stops than starts
Channels == [mode |-> "ASYNC", coordinated |-> FALSE, topo |-> "channels"]

InitChannels == InitNet(Channels)

PostManage(k, start) ==
    /\ raised = ""
    /\ IF start THEN managed[k].starts < MaxStarts
       ELSE managed[k].stops < managed[k].starts
    /\ urgent' = Append(urgent, ManageActiveChannels("A", k[1], k[2], "B", start))
    /\ managed' = [managed EXCEPT ![k] = IF start THEN [@ EXCEPT !.starts = @ + 1]
                                         ELSE [@ EXCEPT !.stops = @ + 1]]
    /\ step' = [op |-> "post_manage", node |-> "A", trans |-> {}, out |-> <<>>]
    /\ UNCHANGED <<memory, decohQ, nextKey, last, cfg, phase, parallel_swappings,
                   active_channels,
                   pending_init_reservation, fifo_reservation_req, cchan, events, fib,
                   raised, eprs, qchannel_paths_map, etg_count, decoh_count>>

NextChannels ==
    \/ \E k \in ChannelKeys, start \in BOOLEAN : PostManage(k, start)
    \/ HandleManageActiveChannels

SpecChannels == InitChannels /\ [][NextChannels]_vars

\* the start or stop events of key k that were posted and have been handled
HandledManage(k, start) ==
    (IF start THEN managed[k].starts ELSE managed[k].stops)
    - Cardinality({i \in 1 .. Len(urgent) :
                      /\ urgent[i].type = "manage"
                      /\ <<urgent[i].ch, urgent[i].path_id>> = k
                      /\ urgent[i].start = start})

C12_SyncDropsLateAttempts ==
    [][\A l \in Links :
         (/\ step'.op = "handle_reserve_res"
          /\ cfg.mode = "SYNC"
          /\ cchan[l] # <<>>
          /\ cchan'[l] = Tail(cchan[l])
          /\ raised' = "")
         => LET k == Head(cchan[l]).key
                w == last'.times
                later == IF w.t_notify_a >= w.t_notify_b THEN w.t_notify_a
                         ELSE w.t_notify_b
                both == {[node |-> l[2], epr |-> k], [node |-> l[1], epr |-> k]}
            IN  /\ last'.op = "generate_entanglement" /\ last'.key = k
                /\ events \cap both = {}
                /\ IF phase = "EXTERNAL" /\ later < w.t_end
                   THEN events' = events \cup both
                   ELSE events' = events
                /\ pending_init_reservation'[l[2]] =
                      {r \in pending_init_reservation[l[2]] : r.key # k}]_vars

\* an attempt was dropped although the earlier of its two notifications was in time
C12_Witness ==
    /\ step.op = "handle_reserve_res"
    /\ cfg.mode = "SYNC"
    /\ phase = "EXTERNAL"
    /\ raised = ""
    /\ last.op = "generate_entanglement"
    /\ last.times.t_notify_b < last.times.t_end
    /\ last.times.t_notify_a >= last.times.t_end
    /\ \A e \in events : e.epr # last.key
    /\ \E a \in DOMAIN memory[step.node].storage :
          /\ memory[step.node].storage[a].active = last.key
          /\ memory[step.node].storage[a].state = "RESERVED"

\* what the handler of an initiator-side event leaves behind when it restarts nothing
NothingRestarted ==
    LET n == Head(urgent).node
        a == Head(urgent).addr
    IN  /\ step'.out = <<>>
        /\ cchan' = cchan
        /\ pending_init_reservation' = pending_init_reservation
        /\ nextKey' = nextKey
        /\ memory'[n].storage[a].state = "RAW"
        /\ memory'[n].storage[a].active = NoKey

\* C16 as stated: in synchronous mode a decoherence or an explicit release of an
\* initiator-side qubit is fatal: the handler raises and restarts no reservation.
C16_SyncReleaseOrDecoherenceFatal ==
    [][(InitiatorEvent /\ cfg.mode = "SYNC" /\ step'.op = "handle_decoh_rel")
       => (raised' # "" /\ NothingRestarted)]_vars

\* C16: in synchronous mode a decoherence of an initiator-side qubit is fatal: the handler
\* raises; an explicit release is not: the handler returns normally with the qubit RAW and
\* without key. In both cases no reservation is restarted.
C16_SyncOnlyDecoherenceFatal ==
    [][(InitiatorEvent /\ cfg.mode = "SYNC" /\ step'.op = "handle_decoh_rel")
       => /\ NothingRestarted
          /\ IF Head(urgent).type = "decohered"
             THEN raised' = "UNEXPECTED -> (t_ext + t_int) too short"
             ELSE raised' = ""]_vars

\* the explicit release of the initiator's qubit has been handled without an error
C16_Witness ==
    /\ step.op = "handle_decoh_rel"
    /\ step.node = "A"
    /\ cfg.mode = "SYNC"
    /\ raised = ""
    /\ <<"AB", NoPath>> \in DOMAIN active_channels["A"]
    /\ decoh_count["A"] = 0
    /\ memory["A"].storage[0].state = "RAW"
    /\ pending_init_reservation["A"] = {}

\* C20: find_swap_candidate returns only a qubit that is ELIGIBLE, holds an EPR, is on a
\* channel other than the given qubit's, and whose EPR's candidate set shares a path_id
\* with the given EPR's; it returns None when the memory holds no such qubit.
C20_SwapCandidateIsCompatible ==
    [][step'.op = "find_swap_candidate"
       => LET n == last'.node
              q == memory[n].storage[last'.qubit]
              ids == eprs[q.data].tmp_path_ids
              ok == {b \in DOMAIN memory[n].storage :
                        /\ memory[n].storage[b].state = "ELIGIBLE"
                        /\ memory[n].storage[b].data # NoData
                        /\ memory[n].storage[b].qchannel # q.qchannel
                        /\ ids # NoIds
                        /\ eprs[memory[n].storage[b].data].tmp_path_ids # NoIds
                        /\ ids \cap eprs[memory[n].storage[b].data].tmp_path_ids # {}}
          IN  /\ raised' = ""
              /\ last'.found # NoAddr => last'.found \in ok
              /\ ok = {} => last'.found = NoAddr
              /\ memory' = memory]_vars

\* a partner on the other channel was returned although an ELIGIBLE qubit with a common
\* path sits at a lower address on the given qubit's own channel
C20_Witness ==
    /\ step.op = "find_swap_candidate"
    /\ last.found # NoAddr
    /\ \E b \in DOMAIN memory[last.node].storage :
          /\ b # last.qubit /\ b < last.found
          /\ memory[last.node].storage[b].state = "ELIGIBLE"
          /\ memory[last.node].storage[b].qchannel =
                memory[last.node].storage[last.qubit].qchannel
          /\ eprs[memory[last.node].storage[b].data].tmp_path_ids
                \cap eprs[memory[last.node].storage[last.qubit].data].tmp_path_ids # {}

\* C19: with coordinated_decisions false, su_parallel_has_conflict returns true exactly when
\* the path_id is not in my_new_epr's candidate set, raises nothing and changes no candidate
\* set; with coordinated_decisions true no conflict is ever detected and the assertion of
\* the conflict branch never fails.
C19_ConflictIffPathOutsideCandidates ==
    /\ [][step'.op = "recv_swap_update" /\ last'.op = "su_parallel_has_conflict"
          => /\ last'.ids # NoIds
             /\ last'.conflict <=> (last'.path_id \notin last'.ids)
             /\ ~cfg.coordinated => raised' = ""
             /\ \A e \in DOMAIN eprs : eprs'[e] = eprs[e]
             /\ last'.conflict => eprs' = eprs]_vars
    /\ [](cfg.coordinated
             => /\ raised # "assert not self.coordinated_decisions"
                /\ last.op = "su_parallel_has_conflict" => ~last.conflict)

\* a node that swapped in the same instant sees the other's path outside its new EPR's
\* candidate set and drops the outcome without an error
C19_Witness ==
    /\ step.op = "recv_swap_update"
    /\ last.op = "su_parallel_has_conflict"
    /\ ~cfg.coordinated
    /\ last.conflict
    /\ last.path_id \notin last.ids
    /\ raised = ""

\* C21: when find_swap_candidate finds a partner, the path_id of the returned FIB entry lies
\* in the intersection of the two EPRs' candidate sets; with coordinated_decisions both
\* EPRs' candidate sets become the singleton of that path_id, without it every candidate
\* set is left as it was.
C21_ChosenPathCommitted ==
    [][step'.op = "find_swap_candidate" /\ last'.found # NoAddr /\ raised' = ""
          => LET st == memory[last'.node].storage
                 e0 == st[last'.qubit].data
                 e1 == st[last'.found].data
             IN  /\ last'.path_id \in eprs[e0].tmp_path_ids \cap eprs[e1].tmp_path_ids
                 /\ cfg.coordinated
                       => /\ eprs'[e0].tmp_path_ids = {last'.path_id}
                          /\ eprs'[e1].tmp_path_ids = {last'.path_id}
                          /\ \A e \in DOMAIN eprs \ {e0, e1} : eprs'[e] = eprs[e]
                 /\ ~cfg.coordinated => eprs' = eprs]_vars

\* a coordinated choice between two paths has narrowed both EPRs to the chosen one while
\* a third EPR keeps both candidates
C21_Witness ==
    /\ step.op = "find_swap_candidate"
    /\ cfg.coordinated
    /\ last.found # NoAddr
    /\ raised = ""
    /\ LET st == memory[last.node].storage
       IN  /\ eprs[st[last.qubit].data].tmp_path_ids = {last.path_id}
           /\ eprs[st[last.found].data].tmp_path_ids = {last.path_id}
           /\ \E e \in DOMAIN eprs : eprs[e].tmp_path_ids = PathIds

\* the qubit_is_entangled call that has just run, if it got as far as _can_enter_purif
RankCheck ==
    IF Urgent("entangled") /\ urgent' = Tail(urgent) /\ step'.op = "qubit_is_entangled"
    THEN LET e == Head(urgent)
             q == memory[e.node].storage[e.addr]
         IN  IF /\ q.data # NoData
                /\ PossiblePathIds(qchannel_paths_map[e.node], q.qchannel) # <<>>
                /\ raised' \in {"", "assert min(rank_diff) == max(rank_diff)"}
             THEN [reached |-> TRUE, was |-> q.state,
                   now |-> memory'[e.node].storage[e.addr].state,
                   diffs |-> {SwapRank(Route(cfg.topo, p), e.node)
                                 - SwapRank(Route(cfg.topo, p), e.neighbor) :
                              p \in eprs'[q.data].tmp_path_ids}]
             ELSE [reached |-> FALSE]
    ELSE [reached |-> FALSE]

\* C22: qubit_is_entangled promotes the qubit to ELIGIBLE only if on every candidate path
\* the node's swap rank minus the notifying neighbor's is at most zero; if the candidate
\* paths give different rank differences the assertion fails and nothing is promoted; if
\* the common difference is positive the qubit stays ENTANGLED0.
C22_PromotionFollowsRank ==
    [][RankCheck.reached
          => LET c == RankCheck
             IN  /\ c.now = "ELIGIBLE" /\ c.was # "ELIGIBLE"
                       => raised' = "" /\ \A d \in c.diffs : d <= 0
                 /\ Cardinality(c.diffs) > 1
                       => /\ raised' = "assert min(rank_diff) == max(rank_diff)"
                          /\ c.now = c.was
                 /\ Cardinality(c.diffs) = 1 /\ (\A d \in c.diffs : d > 0)
                       => raised' = "" /\ c.now = "ENTANGLED0" /\ c.was = "ENTANGLED0"]_vars

\* at A both paths are candidates: on A - B - C the neighbor B has the lower rank, on
\* A - B the same rank, and the assertion has failed with the qubit left ENTANGLED0
C22_Witness ==
    /\ step.op = "qubit_is_entangled"
    /\ step.node = "A"
    /\ raised = "assert min(rank_diff) == max(rank_diff)"
    /\ \E a \in DOMAIN memory["A"].storage :
          /\ memory["A"].storage[a].state = "ENTANGLED0"
          /\ memory["A"].storage[a].data # NoData
          /\ eprs[memory["A"].storage[a].data].tmp_path_ids = {1, 2}

\* how often path p is registered on channel ch in the map m
Registrations(m, ch, p) ==
    Cardinality({j \in 1 .. Len(PossiblePathIds(m, ch)) : PossiblePathIds(m, ch)[j] = p})

SameRegistrations(m1, m2) ==
    \A ch \in DOMAIN m1 \cup DOMAIN m2, p \in PathIds :
        Registrations(m1, ch, p) = Registrations(m2, ch, p)

\* C23: every install_path_neighbor adds one registration of its path on its channel and
\* every matching uninstall_path_neighbor takes one away, leaving all others as they were,
\* so each channel holds exactly the paths installed and not yet uninstalled, with
\* multiplicity; a channel key is present iff its list is non-empty; an install followed
\* by its uninstall restores the registrations, and the keys, that were there before.
C23_ChannelPathsMultimap ==
    /\ [](\A n \in Nodes : \A ch \in DOMAIN qchannel_paths_map[n] :
             qchannel_paths_map[n][ch] # <<>>)
    /\ [][step'.op \in {"install_path_neighbor", "uninstall_path_neighbor"}
             /\ qchannel_paths_map' # qchannel_paths_map
          => LET m == qchannel_paths_map["B"]
                 m1 == qchannel_paths_map'["B"]
                 by == IF step'.op = "install_path_neighbor" THEN 1 ELSE 0 - 1
             IN  /\ last'.before = m
                 /\ \A ch \in {"AB", "BC"}, p \in PathIds :
                       Registrations(m1, ch, p) =
                          Registrations(m, ch, p)
                             + (IF ch = last'.ch /\ p = last'.path_id THEN by ELSE 0)
                 /\ (/\ step.op = "install_path_neighbor"
                     /\ step'.op = "uninstall_path_neighbor"
                     /\ last'.ch = last.ch
                     /\ last'.path_id = last.path_id)
                       => /\ SameRegistrations(m1, last.before)
                          /\ DOMAIN m1 = DOMAIN last.before]_vars

\* a path registered twice on a channel, once more and once less, is registered twice again
C23_Witness ==
    /\ step.op = "uninstall_path_neighbor"
    /\ last.ch = "AB" /\ last.path_id = 1
    /\ Registrations(last.before, "AB", 1) = 3
    /\ Registrations(qchannel_paths_map["B"], "AB", 1) = 2
    /\ "BC" \notin DOMAIN qchannel_paths_map["B"]

\* the notification handled by the step, its node, and the free slots of that node that
\* carry the EPR's reservation key
Notified ==
    LET ev == CHOOSE e \in events \ events' : TRUE
    IN  [node |-> ev.node, epr |-> ev.epr,
         free |-> {a \in DOMAIN memory[ev.node].storage :
                      /\ memory[ev.node].storage[a].data = NoData
                      /\ memory[ev.node].storage[a].active = eprs[ev.epr].key}]

\* C24: an entanglement notification delivered to a node without a free slot carrying the
\* EPR's reservation key raises a fatal error and stores nothing; a half that is stored
\* goes into a free slot with that key and into no other; it is never dropped silently.
C24_StaleNotificationIsFatal ==
    [][step'.op = "handle_success_entangle" /\ events' # events
          => LET n == Notified.node
             IN  /\ raised' \in {"", "Failed to store EPR"}
                 /\ Notified.free = {}
                       => /\ raised' = "Failed to store EPR"
                          /\ memory' = memory
                          /\ urgent' = urgent
                 /\ raised' = ""
                       => \E a \in Notified.free :
                             /\ memory'[n].storage[a].data = Notified.epr
                             /\ \A b \in DOMAIN memory[n].storage \ {a} :
                                   memory'[n].storage[b] = memory[n].storage[b]]_vars

\* the initiator's qubit was released and reserved again under a new key before the
\* notification for the old key arrived
C24_Witness ==
    /\ step.op = "handle_success_entangle"
    /\ raised = "Failed to store EPR"
    /\ \E a \in DOMAIN memory[step.node].storage :
          /\ memory[step.node].storage[a].active # NoKey
          /\ memory[step.node].storage[a].data = NoData
          /\ \E e \in DOMAIN eprs : eprs[e].key # memory[step.node].storage[a].active

\* what node m owns, and the candidate sets it reads off the EPRs its memory holds
Seen(m) ==
    [memory |-> memory[m], active_channels |-> active_channels[m],
     pending |-> pending_init_reservation[m], fifo |-> fifo_reservation_req[m],
     paths |-> qchannel_paths_map[m],
     candidates |-> [a \in {b \in DOMAIN memory[m].storage :
                                memory[m].storage[b].data # NoData} |->
                        eprs[memory[m].storage[a].data].tmp_path_ids]]

\* C25: no handler step of one node changes anything another node owns or reads off the
\* EPRs it holds, and the half a notification stores at a node carries no candidate set
\* yet: a candidate set assigned at one endpoint of an EPR is not seen at the other
\* endpoint.
C25_NoSharedState ==
    /\ [][\A m \in Nodes : step' # step /\ step'.node # m => Seen(m)' = Seen(m)]_vars
    /\ [][step'.op = "handle_success_entangle" /\ events' # events /\ raised' = ""
             => eprs'[Notified.epr].tmp_path_ids = NoIds]_vars

\* B has just stored its half, its mux has not been called for it yet, and the EPR already
\* carries the candidate set that A's qubit_is_entangled assigned
C25_Witness ==
    /\ step.op = "handle_success_entangle"
    /\ step.node = "B"
    /\ raised = ""
    /\ urgent # <<>>
    /\ Head(urgent).type = "entangled" /\ Head(urgent).node = "B"
    /\ LET q == memory["B"].storage[Head(urgent).addr]
       IN  /\ q.state = "ENTANGLED0"
           /\ eprs[q.data].src = "A"
           /\ eprs[q.data].tmp_path_ids # NoIds
           /\ \E a \in DOMAIN memory["A"].storage :
                 memory["A"].storage[a].data = q.data

\* a schedule the statistical mux supports: 1 at both ends of the swap sequence, 0 at
\* every interior node, no purification round, no m_v
Supported(instructions) ==
    LET swap == instructions.swap
    IN  /\ Len(swap) >= 2
        /\ swap[1] = 1 /\ swap[Len(swap)] = 1
        /\ \A i \in 2 .. Len(swap) - 1 : swap[i] = 0
        /\ \A i \in 1 .. Len(instructions.purif) : instructions.purif[i] = 0
        /\ ~instructions.m_v

\* C26: the statistical mux accepts path instructions only if the swap sequence has 1 at
\* both endpoints and 0 at every interior node, every purification round count is 0 and no
\* m_v field is present; any other schedule fails validation, and its path is not installed.
C26_OnlySupportedSchedulesInstalled ==
    /\ step.op = "validate_path_instructions"
          => /\ raised = "" => Supported(last.instructions)
             /\ ~Supported(last.instructions) => raised # ""
    /\ fib["B"][1] = "yes" => Supported(last.instructions)
    /\ last.op = "validate_path_instructions" /\ ~Supported(last.instructions)
          => raised # "" /\ qchannel_paths_map["B"] = EmptyFn

\* a four-node schedule with a swap marked at an interior node has been rejected
C26_Witness ==
    /\ step.op = "validate_path_instructions"
    /\ last.instructions.swap = <<1, 0, 1, 1>>
    /\ last.instructions.route_len = 4
    /\ ~last.instructions.m_v
    /\ last.instructions.purif = <<0, 0>>
    /\ raised = "assert all s == 0"
    /\ fib["B"][1] = "no"

\* the memory holds content under the name v, or in the slot at address v
Holds(byName, v) ==
    \E a \in DOMAIN Mem.storage :
        /\ Mem.storage[a].data # NoData
        /\ IF byName THEN Mem.storage[a].data = v ELSE a = v

\* C27: get() and read() of a name or an address that holds nothing return None and leave
\* the memory unchanged; they report not-found exactly when called with must=True, and a
\* call without must never reports an error.
C27_LookupMissIsNotAnError ==
    /\ [][last'.op \in {"get", "read"} /\ ~Holds(last'.byName, last'.v)
             => /\ last'.addr = NoAddr /\ last'.data = NoData
                /\ memory' = memory
                /\ last'.err # "" <=> last'.must]_vars
    /\ [](last.op \in {"get", "read"} /\ ~last.must => last.err = "")

\* a read by a name the non-empty memory does not hold has returned None without an error
C27_Witness ==
    /\ last.op = "read"
    /\ last.byName /\ ~last.must
    /\ last.addr = NoAddr /\ last.err = ""
    /\ Mem.usage > 0
    /\ ~Holds(TRUE, last.v)

\* C28: after clear(), whatever the memory held, is_full() is false and no slot holds
\* content; a write that follows, asking for no path_id and no key, succeeds.
C28_ClearFreesEverySlot ==
    /\ [][last'.op = "clear"
             => /\ ~IsFull(memory'[MemNode])
                /\ memory'[MemNode].usage = 0
                /\ \A a \in DOMAIN memory'[MemNode].storage :
                      memory'[MemNode].storage[a].data = NoData]_vars
    /\ [][last.op = "clear" /\ last'.op = "write" /\ last'.pid = NoPath
             /\ last'.key = NoKey
             => /\ last'.addr # NoAddr
                /\ memory'[MemNode].storage[last'.addr].data = last'.name
                /\ memory'[MemNode].usage = 1]_vars

\* a memory of capacity 1 was written, cleared, and has taken the next write
C28_Witness ==
    /\ last.op = "write"
    /\ last.addr # NoAddr
    /\ last.nw = 1
    /\ last.name = 2
    /\ Capacity(Mem) = 1
    /\ IsFull(Mem)

\* C29: deallocate(addr) on a path-allocated, unoccupied slot removes its path binding,
\* touches no other slot, and an allocate that follows binds a slot again, that one unless
\* a lower one was unbound too; deallocate on an address outside [0, capacity) raises a
\* bounds error and changes no slot.
C29_DeallocateReleasesBinding ==
    /\ [][last'.op = "deallocate" /\ last'.v \in DOMAIN Mem.storage
             /\ Mem.storage[last'.v].path_id # NoPath
             => /\ last'.err = ""
                /\ memory'[MemNode].storage[last'.v] =
                      [Mem.storage[last'.v] EXCEPT !.path_id = NoPath]
                /\ \A a \in DOMAIN Mem.storage \ {last'.v} :
                      memory'[MemNode].storage[a] = Mem.storage[a]]_vars
    /\ [][last.op = "deallocate" /\ last.err = "" /\ last'.op = "allocate"
             => /\ last'.addr # NoAddr
                /\ last'.addr <= last.v
                /\ memory'[MemNode].storage[last'.addr].path_id = last'.pid
                /\ last'.addr = last.v
                      \/ Mem.storage[last'.addr].path_id = NoPath]_vars
    /\ [][last'.op = "deallocate" /\ ~(0 <= last'.v /\ last'.v < Capacity(Mem))
             => last'.err = "IndexError" /\ memory' = memory]_vars

\* the only slot of the memory, bound to path 1, was deallocated and then allocated to
\* path 2
C29_Witness ==
    /\ last.op = "allocate"
    /\ last.pid = 2
    /\ last.addr = 0
    /\ Capacity(Mem) = 1
    /\ Mem.storage[0].path_id = 2
    /\ Mem.storage[0].active = 1

\* the qubits of node n that lie on an active (qchannel, path_id) of n
OnActiveChannel(n) ==
    {a \in DOMAIN memory[n].storage :
        <<memory[n].storage[a].qchannel, memory[n].storage[a].path_id>>
            \in DOMAIN active_channels[n]}

\* C31: in synchronous mode a reservation is started only by the phase handler on entering
\* an EXTERNAL phase: it clears the memory and then starts one reservation for every qubit
\* of every active (channel, path_id), all of them RAW after the clear; the handler of an
\* INTERNAL phase changes nothing; a start event records the channel and starts nothing.
C31_SyncStartsOnExternalOnly ==
    [][cfg.mode = "SYNC" =>
         /\ nextKey' # nextKey => step'.op = "handle_sync_phase" /\ phase = "EXTERNAL"
         /\ (step'.op = "handle_sync_phase" /\ urgent # <<>> /\ phase = "EXTERNAL")
            => LET n == Head(urgent).node
                   started == OnActiveChannel(n)
                   fresh == nextKey .. nextKey' - 1
               IN  /\ raised' = ""
                   /\ memory'[n].usage = 0
                   /\ nextKey' - nextKey = Cardinality(started)
                   /\ Len(step'.out) = Cardinality(started)
                   /\ \A a \in DOMAIN memory[n].storage :
                         LET q == memory'[n].storage[a]
                         IN  /\ q.data = NoData
                             /\ IF a \in started
                                THEN /\ q.state = "ACTIVE"
                                     /\ q.active \in fresh
                                     /\ \E r \in pending_init_reservation'[n] :
                                           /\ r.key = q.active /\ r.addr = a
                                           /\ r.qchannel = q.qchannel
                                           /\ r \notin pending_init_reservation[n]
                                     /\ \E i \in 1 .. Len(step'.out) :
                                           /\ step'.out[i].cmd = "RESERVE_QUBIT"
                                           /\ step'.out[i].key = q.active
                                           /\ step'.out[i].path_id = q.path_id
                                ELSE q.state = "RAW" /\ q.active = NoKey
                   /\ \A a, b \in started :
                         a # b => memory'[n].storage[a].active # memory'[n].storage[b].active
                   /\ pending_init_reservation[n] \subseteq pending_init_reservation'[n]
                   /\ Cardinality(pending_init_reservation'[n])
                         = Cardinality(pending_init_reservation[n]) + Cardinality(started)
         /\ (step'.op = "handle_sync_phase" /\ urgent # <<>> /\ phase = "INTERNAL")
            => /\ memory' = memory
               /\ pending_init_reservation' = pending_init_reservation
               /\ fifo_reservation_req' = fifo_reservation_req
               /\ cchan' = cchan
               /\ active_channels' = active_channels
               /\ events' = events
               /\ raised' = ""
         /\ (step'.op = "add_active_channel" /\ urgent # <<>>)
            => LET e == Head(urgent)
               IN  /\ <<e.ch, e.path_id>> \in DOMAIN active_channels'[e.node]
                   /\ memory' = memory
                   /\ pending_init_reservation' = pending_init_reservation
                   /\ cchan' = cchan
                   /\ step'.out = <<>>]_vars

\* entering the second EXTERNAL phase, A cleared the half it had stored in the first one
\* and started a reservation for the qubit
C31_Witness ==
    /\ cfg.mode = "SYNC"
    /\ step.op = "handle_sync_phase"
    /\ step.node = "A"
    /\ phase = "EXTERNAL"
    /\ raised = ""
    /\ etg_count["A"] = 1
    /\ decoh_count["A"] = 0
    /\ memory["A"].storage[0].state = "ACTIVE"
    /\ memory["A"].storage[0].active = 2
    /\ memory["A"].storage[0].data = NoData
    /\ Len(step.out) = 1

\* the RAW qubits of node n assigned to qchannel ch and allocated to path_id
RawOn(n, ch, path_id) ==
    {a \in DOMAIN memory[n].storage :
        /\ memory[n].storage[a].qchannel = ch
        /\ memory[n].storage[a].path_id = path_id
        /\ memory[n].storage[a].state = "RAW"}

\* C32: add_active_channel starts reservations only when the count of (channel, path_id)
\* goes from 0 to 1: then every RAW qubit of the key gets one. A start for a key that is
\* active already adds one to the count and starts nothing; it is an assertion failure
\* unless path_id is None.
C32_StartsOnFirstReferenceOnly ==
    [][(step'.op = "add_active_channel" /\ urgent # <<>>)
       => LET e == Head(urgent)
              n == e.node
              k == <<e.ch, e.path_id>>
              cnt == IF k \in DOMAIN active_channels[n] THEN active_channels[n][k].n ELSE 0
              \* in synchronous mode the channel is not run until the next EXTERNAL phase
              raw == IF cfg.mode = "ASYNC" THEN RawOn(n, e.ch, e.path_id) ELSE {}
          IN  /\ active_channels'[n][k].n = cnt + 1
              /\ IF cnt = 0
                 THEN /\ raised' = ""
                      /\ nextKey' - nextKey = Cardinality(raw)
                      /\ Len(step'.out) = Cardinality(raw)
                      /\ \A a \in raw :
                            /\ memory'[n].storage[a].state = "ACTIVE"
                            /\ memory'[n].storage[a].active \in nextKey .. nextKey' - 1
                      /\ \A a \in DOMAIN memory[n].storage \ raw :
                            memory'[n].storage[a] = memory[n].storage[a]
                 ELSE /\ nextKey' = nextKey
                      /\ memory' = memory
                      /\ pending_init_reservation' = pending_init_reservation
                      /\ cchan' = cchan
                      /\ step'.out = <<>>
                      /\ raised' = IF e.path_id = NoPath THEN ""
                                   ELSE "add_active_channel: assert path_id is None"]_vars

\* the second start of (AB, None) was handled: the count is 2 and the only reservation is
\* the one the first start made
C32_Witness ==
    /\ step.op = "add_active_channel"
    /\ raised = ""
    /\ <<"AB", NoPath>> \in DOMAIN active_channels["A"]
    /\ active_channels["A"][<<"AB", NoPath>>].n = 2
    /\ nextKey = 2
    /\ memory["A"].storage[0].state = "ACTIVE"
    /\ Cardinality(pending_init_reservation["A"]) = 1

\* a QubitEntangledEvent is about to be handled for a qubit on whose channel the mux of the
\* node has no path registered
EntangledWithoutPath ==
    /\ urgent # <<>>
    /\ Head(urgent).type = "entangled"
    /\ LET q == memory[Head(urgent).node].storage[Head(urgent).addr]
       IN  /\ q.path_id = NoPath
           /\ q.qchannel # NoCh
           /\ q.qchannel \notin DOMAIN qchannel_paths_map[Head(urgent).node]

\* C33: under the dynamic mux, a qubit that becomes entangled on a channel with no path
\* installed is released with its content read out; no EPR's candidate set is assigned, the
\* qubit is not promoted, and the handler of the release resets it to RAW (from where a new
\* reservation may take it).
C33_EntangledWithoutPathIsReleased ==
    /\ [][(EntangledWithoutPath /\ step'.op = "qubit_is_entangled")
          => LET n == Head(urgent).node
                 a == Head(urgent).addr
             IN  /\ raised' = ""
                 /\ memory[n].storage[a].state = "ENTANGLED0"
                 /\ memory[n].storage[a].data # NoData
                 /\ memory'[n].storage[a].state = "RELEASE"
                 /\ memory'[n].storage[a].data = NoData
                 /\ memory'[n].usage = memory[n].usage - 1
                 /\ eprs' = eprs
                 /\ step'.trans = {<<"ENTANGLED0", "RELEASE">>}
                 /\ urgent' = Append(Tail(urgent), Ev("released", n, a, ""))]_vars
    /\ [][(step.op = "qubit_is_entangled" /\ urgent # <<>>
             /\ Head(urgent).type = "released" /\ step'.op = "handle_decoh_rel")
          => LET q == memory'[Head(urgent).node].storage[Head(urgent).addr]
             IN  /\ q.data = NoData
                 \* RAW, or taken by a new reservation at once
                 /\ q.state \in {"RAW", "ACTIVE", "RESERVED"}
                 /\ <<"RELEASE", "RAW">> \in step'.trans
                 /\ \A t \in step'.trans : t[2] # "ELIGIBLE"]_vars

\* the path was uninstalled at A while the attempt was in flight: A's qubit has been
\* released with its half read out, and the EPR has no candidate set
C33_Witness ==
    /\ step.op = "qubit_is_entangled"
    /\ step.node = "A"
    /\ raised = ""
    /\ \E p \in PathIds : fib["A"][p] = "removed"
    /\ \A p \in PathIds : fib["A"][p] # "yes"
    /\ memory["A"].storage[0].state = "RELEASE"
    /\ memory["A"].storage[0].data = NoData
    /\ urgent = <<Ev("released", "A", 0, "")>>
    /\ \A k \in DOMAIN eprs : eprs[k].src = "A" => eprs[k].tmp_path_ids = NoIds
    /\ etg_count["A"] = 1

\* C34: in every reachable state each record of pending_init_reservation maps its key to a
\* local qubit that is ACTIVE with that reservation key, so that every RESERVE_QUBIT_OK
\* finds its record and the assertion qubit.active == key holds, also when an EXTERNAL
\* phase clears the memory and runs the active channels again while a reply is in flight.
C34_PendingRecordsMatchQubits ==
    /\ \A n \in Nodes : \A r \in pending_init_reservation[n] :
          /\ memory[n].storage[r.addr].state = "ACTIVE"
          /\ memory[n].storage[r.addr].active = r.key
    /\ raised # "handle_reserve_res: KeyError"
    /\ raised # "assert qubit.active == key"

\* the reply to the reservation of the first EXTERNAL phase arrived after the second one
\* had given the qubit a new key: the assertion of handle_reserve_res failed
C34_Witness ==
    /\ cfg.mode = "SYNC"
    /\ step.op = "handle_reserve_res"
    /\ step.node = "A"
    /\ raised = "assert qubit.active == key"
    /\ memory["A"].storage[0].state = "ACTIVE"
    /\ memory["A"].storage[0].active = 2
    /\ \A r \in pending_init_reservation["A"] : r.key = 2

\* C35: in synchronous mode no entanglement notification is handled outside an EXTERNAL
\* phase: an attempt is scheduled only when both notification times lie in the current
\* EXTERNAL window, so the assertion at the start of handle_success_entangle holds at both
\* endpoints in every reachable state.
C35_NotificationsInExternalPhase ==
    /\ [](raised # "assert timing.is_external()")
    /\ [][(cfg.mode = "SYNC" /\ step'.op = "handle_success_entangle")
          => phase = "EXTERNAL" /\ phase' = "EXTERNAL"]_vars
    /\ [](cfg.mode = "SYNC" /\ phase = "INTERNAL" /\ raised = ""
             /\ (urgent = <<>> \/ Head(urgent).type # "phase")
          => events = {})

\* both endpoints have handled their notification within the EXTERNAL phase in which the
\* attempt was scheduled
C35_Witness ==
    /\ cfg.mode = "SYNC"
    /\ phase = "EXTERNAL"
    /\ step.op = "handle_success_entangle"
    /\ raised = ""
    /\ events = {}
    /\ last.op = "generate_entanglement"
    /\ Max(last.times.t_notify_a, last.times.t_notify_b) < last.times.t_end
    /\ etg_count["A"] = 1
    /\ memory["A"].storage[0].data = last.key
    /\ memory["B"].storage[0].data = last.key

\* C36: under the statistical mux every ELIGIBLE qubit holds an EPR whose candidate set is
\* assigned and not empty, and when qubit_is_entangled promotes a qubit, every path_id of
\* the set is registered on the qubit's channel at that node.
C36_EligibleHasCandidates ==
    /\ [](\A n \in Nodes : \A a \in DOMAIN memory[n].storage :
             memory[n].storage[a].state = "ELIGIBLE"
             => /\ memory[n].storage[a].data # NoData
                /\ memory[n].storage[a].data \in DOMAIN eprs
                /\ eprs[memory[n].storage[a].data].tmp_path_ids # NoIds
                /\ eprs[memory[n].storage[a].data].tmp_path_ids # {}
                /\ eprs[memory[n].storage[a].data].tmp_path_ids \subseteq PathIds)
    /\ [][\A n \in Nodes : \A a \in DOMAIN memory[n].storage :
            (memory[n].storage[a].state # "ELIGIBLE"
                /\ memory'[n].storage[a].state = "ELIGIBLE")
            => LET q == memory[n].storage[a]
               IN  /\ step'.op = "qubit_is_entangled"
                   /\ step'.node = n
                   /\ q.data # NoData
                   /\ memory'[n].storage[a].data = q.data
                   /\ eprs'[q.data].tmp_path_ids
                         \subseteq Range(PossiblePathIds(qchannel_paths_map[n], q.qchannel))
                   /\ qchannel_paths_map' = qchannel_paths_map]_vars
    /\ [][\A k \in DOMAIN eprs :
            (eprs[k].tmp_path_ids # NoIds /\ ~cfg.coordinated)
            => (k \in DOMAIN eprs' /\ eprs'[k].tmp_path_ids = eprs[k].tmp_path_ids)]_vars

\* B's qubit on channel AB has been promoted: its EPR carries the path registered on AB at B
C36_Witness ==
    /\ step.op = "qubit_is_entangled"
    /\ step.node = "B"
    /\ raised = ""
    /\ memory["B"].storage[0].state = "ELIGIBLE"
    /\ memory["B"].storage[0].data # NoData
    /\ eprs[memory["B"].storage[0].data].tmp_path_ids = {1}
    /\ "AB" \in DOMAIN qchannel_paths_map["B"]
    /\ qchannel_paths_map["B"]["AB"] = <<1>>

\* the slots of node n that hold the half of EPR k
HalfOf(n, k) == {a \in DOMAIN memory[n].storage : memory[n].storage[a].data = k}

\* the mux of node n has been called for its half of EPR k, which it still holds
MuxDone(n, k) ==
    /\ HalfOf(n, k) # {}
    /\ [node |-> n, epr |-> k] \notin events
    /\ \A i \in 1 .. Len(urgent) :
          ~(urgent[i].type = "entangled" /\ urgent[i].node = n
               /\ urgent[i].addr \in HalfOf(n, k))

Promoted(n, k) == \E a \in HalfOf(n, k) : memory[n].storage[a].state = "ELIGIBLE"

\* C37: when both ends of an elementary EPR have passed it to qubit_is_entangled and its
\* candidate paths give each end one rank difference, the difference seen by one end is
\* the negative of the other's, an end promotes its qubit iff its difference is at most 0,
\* so at least one end promotes, and both do exactly when their swap ranks are equal.
C37_OneEndPromotes ==
    \A k \in DOMAIN eprs :
        LET s == eprs[k].src
            d == eprs[k].dst
            ids == eprs[k].tmp_path_ids
        IN  (raised = "" /\ MuxDone(s, k) /\ MuxDone(d, k))
            => /\ ids # NoIds /\ ids # {}
               /\ \E x \in {-1, 0, 1} :
                     /\ RankDiffs(cfg.topo, s, d, ids) = {x}
                     /\ RankDiffs(cfg.topo, d, s, ids) = {0 - x}
                     /\ Promoted(s, k) <=> x <= 0
                     /\ Promoted(d, k) <=> x >= 0
               /\ Promoted(s, k) \/ Promoted(d, k)
               /\ (Promoted(s, k) /\ Promoted(d, k))
                     <=> \A p \in ids : SwapRank(Route(cfg.topo, p), s)
                                           = SwapRank(Route(cfg.topo, p), d)

\* A and B are the two ends of path 2 and have equal swap ranks: both promoted their half
C37_Witness ==
    /\ raised = ""
    /\ step.op = "qubit_is_entangled"
    /\ \E k \in DOMAIN eprs :
          /\ eprs[k].src = "A" /\ eprs[k].dst = "B"
          /\ eprs[k].tmp_path_ids = {2}
          /\ MuxDone("A", k) /\ MuxDone("B", k)
          /\ Promoted("A", k) /\ Promoted("B", k)

\* qubit a of node n is on a channel that is active at n, and waits for an entanglement
Waiting(n, a) ==
    /\ InitiatorOf(n, a)
    /\ memory[n].storage[a].state \in {"RAW", "ACTIVE", "RESERVED"}

\* C38: in asynchronous mode, with packets and events eventually delivered and occupied
\* responder qubits eventually released, every initiator qubit of an active channel that
\* is RAW or has a reservation under way eventually reaches ENTANGLED0.
C38_ActiveQubitGetsEntangled ==
    \A x \in InitiatorQubits :
        Waiting(x[1], x[2])
            ~> (InitiatorOf(x[1], x[2]) /\ memory[x[1]].storage[x[2]].state = "ENTANGLED0")

\* C's second request waited in B's queue behind a request of A and was served: both
\* qubits of C have got their half
C38_Witness ==
    /\ raised = ""
    /\ step.op = "handle_success_entangle"
    /\ step.node = "C"
    /\ InitiatorOf("C", 0) /\ InitiatorOf("C", 1)
    /\ memory["C"].storage[1].state = "ENTANGLED0"
    /\ memory["C"].storage[0].data # NoData
    /\ memory["C"].storage[1].data # NoData
    /\ nextKey > 4

\* the keys of the requests waiting in the queue of node n
QueuedKeys(n) ==
    {fifo_reservation_req[n][i].key : i \in 1 .. Len(fifo_reservation_req[n])}

\* node n has accepted the request of key k: one of its qubits is reserved under the key
AcceptedAt(n, k) ==
    /\ k \notin QueuedKeys(n)
    /\ \E a \in DOMAIN memory[n].storage :
          /\ memory[n].storage[a].state = "RESERVED"
          /\ memory[n].storage[a].active = k

\* C39: with packets and events eventually delivered and occupied responder qubits
\* eventually released, every request waiting in a responder's queue is eventually
\* accepted, also when requests for another channel are queued ahead of it and a release
\* tries only the head of the queue.
C39_QueuedRequestIsAccepted ==
    \A n \in Responders : \A k \in 2 .. MaxLiveKeys :
        (k \in QueuedKeys(n)) ~> AcceptedAt(n, k)

\* a release at B has tried the head of the queue, a request for channel A-B whose qubit
\* is taken, and left the request for channel B-C behind it waiting although B's qubit
\* on B-C is free
C39_Witness ==
    /\ raised = ""
    /\ step.op = "handle_decoh_rel"
    /\ step.node = "B"
    /\ Len(fifo_reservation_req["B"]) = 2
    /\ fifo_reservation_req["B"][1].qchannel = "AB"
    /\ fifo_reservation_req["B"][2].qchannel = "BC"
    /\ Acceptable(memory["B"], fifo_reservation_req["B"][2]) # {}

\* the paths installed at node n whose right neighbor is reached over channel ch
StartedPaths(n, ch) ==
    {p \in PathIds :
        /\ fib[n][p] = "yes"
        /\ OnRoute(Route(cfg.topo, p), n)
        /\ Right(Route(cfg.topo, p), n) # ""
        /\ QCh(n, Right(Route(cfg.topo, p), n)) = ch}

\* channel ch was started at node n and every start has been matched by a stop that the
\* link layer has handled
Stopped(n, ch) ==
    /\ raised = ""
    /\ StartedPaths(n, ch) = {}
    /\ \E p \in PathIds :
          /\ fib[n][p] = "removed"
          /\ Right(Route(cfg.topo, p), n) # ""
          /\ QCh(n, Right(Route(cfg.topo, p), n)) = ch
    /\ \A i \in 1 .. Len(urgent) : urgent[i].type # "manage"

\* C40: once the stops of a channel have brought its count to zero the entry is gone, and
\* until a new start is handled no step of the node adds a pending reservation for the
\* channel or draws a key for it: a release or decoherence of one of its qubits resets the
\* qubit to RAW and may only serve the head of the queue, and the EXTERNAL handler leaves
\* its qubits RAW. The stop itself changes neither the memory, the pending records, the
\* queue, the packets nor the scheduled notifications.
C40_StoppedChannelStartsNothing ==
    /\ [](\A n \in Nodes : \A ch \in {"AB", "BC"} :
            Stopped(n, ch) => <<ch, NoPath>> \notin DOMAIN active_channels[n])
    /\ [][\A n \in Nodes : \A ch \in {"AB", "BC"} :
            Stopped(n, ch) =>
                /\ \A r \in pending_init_reservation'[n] \ pending_init_reservation[n] :
                      r.qchannel # ch
                /\ step'.node = n /\ step'.op \in {"handle_decoh_rel", "handle_sync_phase"}
                      => nextKey' = nextKey
                /\ (/\ urgent # <<>>
                    /\ Head(urgent).type \in {"released", "decohered"}
                    /\ Head(urgent).node = n
                    /\ memory[n].storage[Head(urgent).addr].qchannel = ch)
                      => LET q == memory'[n].storage[Head(urgent).addr]
                         IN  \/ q.state = "RAW" /\ q.active = NoKey
                             \/ /\ q.state = "RESERVED"
                                /\ fifo_reservation_req[n] # <<>>
                                /\ q.active = Head(fifo_reservation_req[n]).key
                                /\ fifo_reservation_req'[n] = Tail(fifo_reservation_req[n])
                /\ (step'.op = "handle_sync_phase" /\ step'.node = n /\ phase = "EXTERNAL")
                      => \A a \in DOMAIN memory'[n].storage :
                            memory'[n].storage[a].qchannel = ch
                                => memory'[n].storage[a].state = "RAW"]_vars
    /\ [][step'.op = "remove_active_channel" =>
            /\ memory' = memory
            /\ pending_init_reservation' = pending_init_reservation
            /\ fifo_reservation_req' = fifo_reservation_req
            /\ cchan' = cchan
            /\ events' = events
            /\ nextKey' = nextKey]_vars

\* the channel A-B of A was stopped while its reservation was under way; the entanglement
\* was generated all the same, and the release of A's qubit has left it RAW with no new
\* reservation
C40_Witness ==
    /\ Stopped("A", "AB")
    /\ cfg.mode = "ASYNC"
    /\ step.op = "handle_decoh_rel"
    /\ step.node = "A"
    /\ step.out = <<>>
    /\ memory["A"].storage[0].state = "RAW"
    /\ memory["A"].storage[0].active = NoKey
    /\ pending_init_reservation["A"] = {}
    /\ nextKey = 2

====
